---------------------------- MODULE Spec2Model ----------------------------
(***************************************************************************)
(* Model of cccp: copy a file, directory tree, symlink or block device,    *)
(* then verify the destination after evicting caches and fix it in place   *)
(* until a whole round needs no change (src/src/main.rs, src/src/copy.rs). *)
(*                                                                         *)
(* File systems are functions from paths (sequences of component names) to *)
(* nodes; a path that is not in the DOMAIN does not exist.  The source is  *)
(* keyed by absolute paths, the destination by paths relative to the mount *)
(* point of its file system.                                               *)
(***************************************************************************)
EXTENDS Integers, Sequences, FiniteSets, TLC

(* ------------------------------ bounds --------------------------------- *)

\* longest regular file / symlink target of the model, in bytes
MaxLen == 3
\* the 4096 bytes of copy.rs `Buffer`, scaled down so that files span blocks
BlockSize == 2
\* how many times the storage may silently corrupt a destination file
MaxCorrupt == 2
\* how many times the source may be modified while the program runs
MaxSrcChange == 1

Byte == {0, 1}

\* all byte strings of length lo..hi
Strings(lo, hi) == UNION {[1..n -> Byte] : n \in lo..hi}

Min(a, b) == IF a < b THEN a ELSE b

(* ----------------------------- checksum -------------------------------- *)

\* number of values of `Checksum(u64)`, scaled down to 3 bits
ChecksumCard == 8
\* reflected generator polynomial of the CRC (x^3 + x + 1 at this width)
Poly == 6

RECURSIVE Xor(_, _)
Xor(a, b) ==
    IF a = 0 THEN b
    ELSE IF b = 0 THEN a
    ELSE (((a % 2) + (b % 2)) % 2) + 2 * Xor(a \div 2, b \div 2)

\* Crc64Hasher::default(): the register starts all ones
HasherDefault == ChecksumCard - 1

\* one input symbol through the reflected CRC register
CrcStep(c, b) ==
    LET x == Xor(c, b)
    IN  IF x % 2 = 1 THEN Xor(x \div 2, Poly) ELSE x \div 2

\* Crc64Hasher::update
RECURSIVE HasherUpdate(_, _)
HasherUpdate(c, bytes) ==
    IF bytes = <<>> THEN c
    ELSE HasherUpdate(CrcStep(c, Head(bytes)), Tail(bytes))

\* Checksum::from(hasher): finalize, the register xor all ones
HasherInto(c) == Xor(c, ChecksumCard - 1)

\* checksum of a whole byte string
Crc(bytes) == HasherInto(HasherUpdate(HasherDefault, bytes))

\* the empty checksum slot, Option::None (no checksum has this value)
None == -1

\* a fill_checksum that reports the mismatch but has overwritten the slot
fill_checksum_clobbers(to_fill, value) ==
    IF to_fill # None /\ to_fill # value
    THEN [ok |-> FALSE, slot |-> value]
    ELSE [ok |-> TRUE, slot |-> value]

\* a fill_checksum that overwrites the slot without comparing
fill_checksum_unchecked(to_fill, value) == [ok |-> TRUE, slot |-> value]

\* fill_checksum: [ok, slot]; fails when the slot holds another value
fill_checksum(to_fill, value) ==
    IF to_fill # None /\ to_fill # value
    THEN [ok |-> FALSE, slot |-> to_fill]
    ELSE [ok |-> TRUE, slot |-> value]

(* ------------------------------- paths --------------------------------- *)

Names == {"x", "y"}

\* OsStr::as_bytes of a component name
NameBytes(n) == IF n = "x" THEN <<0>> ELSE IF n = "y" THEN <<1>> ELSE <<0, 1>>

IsPrefix(p, q) == Len(p) <= Len(q) /\ SubSeq(q, 1, Len(p)) = p

Parent(p) == SubSeq(p, 1, Len(p) - 1)

\* PathBuf::push of one component: the root directory replaces what was there
RECURSIVE PushAll(_, _)
PushAll(res, components) ==
    IF components = <<>> THEN res
    ELSE PushAll(IF Head(components) = "/" THEN <<"/">> ELSE Append(res, Head(components)),
                 Tail(components))

\* a change_prefix that skips one component too few
change_prefix_skipsLess(path, old_prefix_len, new_prefix) ==
    PushAll(new_prefix, SubSeq(path, old_prefix_len, Len(path)))

\* utils::change_prefix: drop old_prefix_len components, push the rest on new_prefix
change_prefix(path, old_prefix_len, new_prefix) ==
    PushAll(new_prefix, SubSeq(path, old_prefix_len + 1, Len(path)))

\* utils::change_prefixes in a build without cfg(test) or cfg(debug): the prefix is
\* not asserted
change_prefixes(old_prefix, new_prefix, path) ==
    change_prefix(path, Len(old_prefix), new_prefix)

\* a closure of change_prefixes that never asserts
change_prefixes_in_lax(asserting, old_prefix, new_prefix, path) ==
    [panic |-> FALSE, path |-> change_prefix(path, Len(old_prefix), new_prefix)]

\* the closure change_prefixes returns, applied to `path`: `asserting` says whether
\* the build has cfg(test) or cfg(debug), where the prefix is asserted first
change_prefixes_in(asserting, old_prefix, new_prefix, path) ==
    IF asserting /\ SubSeq(path, 1, Min(Len(old_prefix), Len(path))) # old_prefix
    THEN [panic |-> TRUE, path |-> <<>>]
    ELSE [panic |-> FALSE, path |-> change_prefix(path, Len(old_prefix), new_prefix)]

\* the canonicalized SOURCE and DEST arguments, and where DEST's file system is mounted
SourceRoot == <<"src">>
MountPoint == <<"mnt">>
TargetRoot == <<"mnt", "dst">>

(* ---------------------------- file systems ----------------------------- *)

Kinds == {"Regular", "Directory", "Symlink", "Device", "Other"}

RegularNode(d) == [kind |-> "Regular", data |-> d]
DeviceNode(d) == [kind |-> "Device", data |-> d]
SymlinkNode(l) == [kind |-> "Symlink", data |-> l]
DirectoryNode == [kind |-> "Directory", data |-> <<>>]
OtherNode == [kind |-> "Other", data |-> <<>>]

\* an exists that follows symlinks: a link counts for what it points to, which
\* the destination does not hold
exists_follows(fs, p) == p \in DOMAIN fs /\ fs[p].kind # "Symlink"

\* utils::exists: symlink_metadata succeeds
exists(fs, p) == p \in DOMAIN fs

\* FileKind::of_path (only called here on paths that exist)
of_path(fs, p) == fs[p].kind

ChildNames(fs, p) == {q[Len(q)] : q \in {r \in DOMAIN fs : Len(r) = Len(p) + 1 /\ IsPrefix(p, r)}}

\* a new node can be created at p: its parent is a directory (or the mount point itself)
CanCreate(fs, p) == Len(p) = 1 \/ (Parent(p) \in DOMAIN fs /\ fs[Parent(p)].kind = "Directory")

Put(fs, p, node) == [q \in (DOMAIN fs) \cup {p} |-> IF q = p THEN node ELSE fs[q]]

\* the node at p and everything below it are gone
RemoveTree(fs, p) == [q \in {r \in DOMAIN fs : ~IsPrefix(p, r)} |-> fs[q]]


(* --------------------------- I/O bookkeeping --------------------------- *)

\* one system call on the destination: what, where, and whether the descriptor or
\* path was obtained from CacheManager::open_no_cache ("policy") or from std::fs ("std")
Io(op, path, via) == [op |-> op, path |-> path, via |-> via]

\* the calls that modify the destination file system
WriteOps == {"create", "write", "set_len", "remove_file", "remove_dir_all",
             "create_dir", "symlink"}

RECURSIVE CountWrites(_)
CountWrites(io) ==
    IF io = <<>> THEN 0
    ELSE (IF Head(io).op \in WriteOps THEN 1 ELSE 0) + CountWrites(Tail(io))

\* what a kernel operation returns: success, the error text, Ok(changed), the
\* destination file system afterwards, the checksum slot / returned checksum, its calls
Res(ok, err, changed, fs, slot, io) ==
    [ok |-> ok, err |-> err, changed |-> changed, fs |-> fs, slot |-> slot, io |-> io]

RECURSIVE SetToSeq(_)
SetToSeq(S) ==
    IF S = {} THEN <<>>
    ELSE LET e == CHOOSE e \in S : TRUE IN <<e>> \o SetToSeq(S \ {e})

\* every order in which a directory with these names can be enumerated
Enumerations(S) ==
    {f \in [1..Cardinality(S) -> S] : \A i, j \in 1..Cardinality(S) : i # j => f[i] # f[j]}

(* ----------------------------- copy kernel ----------------------------- *)

\* bytes `data` written at `offset` of a file holding D (offset <= Len(D))
WriteAt(D, offset, data) ==
    SubSeq(D, 1, offset) \o data \o SubSeq(D, offset + Len(data) + 1, Len(D))

\* the name a link target made of these bytes refers to, "" if it is no name
NameOf(bytes) ==
    IF \E n \in Names \cup {SourceRoot[1]} : NameBytes(n) = bytes
    THEN CHOOSE n \in Names \cup {SourceRoot[1]} : NameBytes(n) = bytes
    ELSE ""

\* what the symlink at p points to, if p is a symlink to something that is there: a
\* link's target is a name next to the link
Referent(fs, p) == Append(Parent(p), NameOf(fs[p].data))

\* p is a symlink to a node that exists
PointsSomewhere(fs, p) ==
    /\ exists(fs, p)
    /\ of_path(fs, p) = "Symlink"
    /\ NameOf(fs[p].data) # ""
    /\ exists(fs, Referent(fs, p))

\* a remove_path that stats through symlinks: it removes what the link points to
remove_path_follows(fs, p) ==
    IF ~exists(fs, p)
    THEN Res(FALSE, "ENOENT", FALSE, fs, None, <<Io("stat", p, "std")>>)
    ELSE LET q == IF PointsSomewhere(fs, p) THEN Referent(fs, p) ELSE p
         IN  Res(TRUE, "", TRUE, RemoveTree(fs, q), None,
                 <<Io("stat", p, "std"),
                   Io(IF of_path(fs, q) = "Directory" THEN "remove_dir_all" ELSE "remove_file",
                      p, "std")>>)

\* remove_path: stat, then remove_dir_all for a directory, remove_file otherwise
remove_path(fs, p) ==
    IF ~exists(fs, p)
    THEN Res(FALSE, "ENOENT", FALSE, fs, None, <<Io("stat", p, "std")>>)
    ELSE Res(TRUE, "", TRUE, RemoveTree(fs, p), None,
             <<Io("stat", p, "std"),
               Io(IF of_path(fs, p) = "Directory" THEN "remove_dir_all" ELSE "remove_file",
                  p, "std")>>)

\* the read/update/write_all loop of copy_file; a block device has no room past its end
RECURSIVE CopyLoop(_, _, _, _, _, _)
CopyLoop(S, D, offset, crc, isDev, io) ==
    LET n_read == Min(BlockSize, Len(S) - offset)
        data == SubSeq(S, offset + 1, offset + n_read)
    IN  IF n_read = 0
        THEN [ok |-> TRUE, data |-> D, crc |-> crc, io |-> io]
        ELSE IF isDev /\ offset + n_read > Len(D)
        THEN [ok |-> FALSE,
              data |-> WriteAt(D, offset, SubSeq(data, 1, Len(D) - offset)),
              crc |-> HasherUpdate(crc, data), io |-> io]
        ELSE CopyLoop(S, WriteAt(D, offset, data), offset + n_read,
                      HasherUpdate(crc, data), isDev, Append(io, "write"))

\* copy_file: the target is opened write+create (not truncated) through the policy
copy_file(src, fs, file, target) ==
    LET S == src[file].data
        open == <<Io("open", target, "policy")>>
        Writes(l) == [i \in 1..Len(l) |-> Io(l[i], target, "policy")]
    IN  IF ~exists(fs, target)
        THEN IF ~CanCreate(fs, target)
             THEN Res(FALSE, "ENOENT", FALSE, fs, None, open)
             ELSE LET r == CopyLoop(S, <<>>, 0, HasherDefault, FALSE, <<"create">>)
                  IN  Res(TRUE, "", TRUE, Put(fs, target, RegularNode(r.data)),
                          HasherInto(r.crc), open \o Writes(r.io))
        ELSE IF of_path(fs, target) \in {"Regular", "Device"}
        THEN LET r == CopyLoop(S, fs[target].data, 0, HasherDefault,
                               of_path(fs, target) = "Device", <<>>)
                 fs2 == Put(fs, target, [fs[target] EXCEPT !.data = r.data])
             IN  IF r.ok
                 THEN Res(TRUE, "", TRUE, fs2, HasherInto(r.crc), open \o Writes(r.io))
                 ELSE Res(FALSE, "ENOSPC", TRUE, fs2, None, open \o Writes(r.io))
        ELSE IF of_path(fs, target) = "Directory"
        THEN Res(FALSE, "EISDIR", FALSE, fs, None, open)
        \* a symlink is followed: the bytes land outside the destination tree
        ELSE Res(TRUE, "", FALSE, fs, Crc(S), open)

\* a directory_checksum that feeds each name's checksum to the next one instead of
\* xoring them
RECURSIVE XorNames_chained(_, _)
XorNames_chained(names, res) ==
    IF names = <<>> THEN res
    ELSE XorNames_chained(Tail(names),
                          HasherInto(HasherUpdate(res, NameBytes(Head(names)))))

\* directory_checksum: xor of the checksums of the entry names, in enumeration order
RECURSIVE XorNames(_, _)
XorNames(names, res) ==
    IF names = <<>> THEN res
    ELSE XorNames(Tail(names), Xor(res, Crc(NameBytes(Head(names)))))

directory_checksum(src, path, order) == XorNames(order, HasherInto(HasherDefault))

\* create_directory: create_dir, AlreadyExists is tolerated
create_directory(fs, target) ==
    IF exists(fs, target)
    THEN Res(TRUE, "", FALSE, fs, None, <<Io("create_dir", target, "std")>>)
    ELSE IF ~CanCreate(fs, target)
    THEN Res(FALSE, "ENOENT", FALSE, fs, None, <<Io("create_dir", target, "std")>>)
    ELSE Res(TRUE, "", TRUE, Put(fs, target, DirectoryNode), None,
             <<Io("create_dir", target, "std")>>)

\* copy_directory: create the directory, return the checksum of the source's names
copy_directory(src, fs, orig, target, order) ==
    LET c == create_directory(fs, target)
    IN  IF ~c.ok THEN c
        ELSE Res(TRUE, "", c.changed, c.fs, directory_checksum(src, orig, order), c.io)

\* symlink_checksum of a path that is a symlink
symlink_checksum(fs, path) == Crc(fs[path].data)

\* copy_symlink: remove_file(target) tolerating NotFound, read the link, symlink()
copy_symlink(src, fs, orig, target) ==
    LET rm == <<Io("remove_file", target, "std")>>
        mk == <<Io("symlink", target, "std")>>
        content == src[orig].data
        fs1 == IF exists(fs, target) THEN RemoveTree(fs, target) ELSE fs
    IN  IF exists(fs, target) /\ of_path(fs, target) = "Directory"
        THEN Res(FALSE, "EISDIR", FALSE, fs, None, rm)
        ELSE IF ~CanCreate(fs1, target)
        THEN Res(FALSE, "ENOENT", fs1 # fs, fs1, None, rm \o mk)
        ELSE Res(TRUE, "", TRUE, Put(fs1, target, SymlinkNode(content)), Crc(content),
                 rm \o mk)

\* copy_path: dispatch on the kind of the source; returns the source's checksum.
\* For a symlink, copy_symlink reads the link and its checksum is dropped, then
\* symlink_checksum reads the link again: `later` is the source at that second read
copy_path_at(src, later, fs, orig, target, order) ==
    CASE of_path(src, orig) \in {"Regular", "Device"} -> copy_file(src, fs, orig, target)
      [] of_path(src, orig) = "Directory" -> copy_directory(src, fs, orig, target, order)
      [] of_path(src, orig) = "Symlink" ->
            LET c == copy_symlink(src, fs, orig, target)
            IN  IF ~c.ok THEN c ELSE [c EXCEPT !.slot = symlink_checksum(later, orig)]
      [] OTHER -> Res(FALSE, "cannot copy unknown fs path type", FALSE, fs, None, <<>>)

\* copy_path on a source nobody modifies during the call
copy_path(src, fs, orig, target, order) == copy_path_at(src, src, fs, orig, target, order)

(* ------------------------------ fix kernel ----------------------------- *)

\* a fix_file that truncates without reporting a change
FixEof_silent(D, offset, crc, changed, isDev, io) ==
    IF ~isDev /\ Len(D) > offset
    THEN [ok |-> TRUE, data |-> SubSeq(D, 1, offset), crc |-> crc, changed |-> changed,
          io |-> Append(io, "set_len")]
    ELSE [ok |-> TRUE, data |-> D, crc |-> crc, changed |-> changed, io |-> io]

\* a fix_file that leaves a longer target as long as it is
FixEof_keepsTail(D, offset, crc, changed, isDev, io) ==
    [ok |-> TRUE, data |-> D, crc |-> crc, changed |-> changed, io |-> io]

\* a fix_file that truncates block devices as it does regular files
FixEof_cutsDevice(D, offset, crc, changed, isDev, io) ==
    IF Len(D) > offset
    THEN [ok |-> TRUE, data |-> SubSeq(D, 1, offset), crc |-> crc, changed |-> TRUE,
          io |-> Append(io, "set_len")]
    ELSE [ok |-> TRUE, data |-> D, crc |-> crc, changed |-> changed, io |-> io]

\* fix_file at end of the source: a longer target that is no block device is cut
\* at `offset`, after reading one more byte from it
FixEof(D, offset, crc, changed, isDev, io) ==
    IF ~isDev /\ Len(D) > offset
    THEN [ok |-> TRUE, data |-> SubSeq(D, 1, offset), crc |-> crc, changed |-> TRUE,
          io |-> Append(io, "set_len")]
    ELSE [ok |-> TRUE, data |-> D, crc |-> crc, changed |-> changed, io |-> io]

\* a fix_file that only appends and never compares the blocks
NeedsWrite_appendOnly(append, data, actual) == append

\* a fix_file that writes every block again
NeedsWrite_always(append, data, actual) == TRUE

\* fix_file: the block of the source must be written over the target's
NeedsWrite(append, data, actual) == append \/ data # actual

\* the block loop of fix_file on source bytes S and destination bytes D: both
\* descriptors are at `offset`; returns the destination bytes, the hasher, `changed`
RECURSIVE FixLoop(_, _, _, _, _, _, _)
FixLoop(S, D, offset, crc, changed, isDev, io) ==
    LET n_orig == Min(BlockSize, Len(S) - offset)
        n_actual == Min(n_orig, Len(D) - offset)
        append == n_actual < n_orig
        data == SubSeq(S, offset + 1, offset + n_orig)
        actual == SubSeq(D, offset + 1, offset + n_actual)
    IN  IF n_orig = 0
        THEN FixEof(D, offset, crc, changed, isDev, io)
        ELSE IF NeedsWrite(append, data, actual)
        THEN IF isDev /\ offset + n_orig > Len(D)
             THEN [ok |-> FALSE,
                   data |-> WriteAt(D, offset, SubSeq(data, 1, Len(D) - offset)),
                   crc |-> HasherUpdate(crc, data), changed |-> TRUE, io |-> io]
             ELSE FixLoop(S, WriteAt(D, offset, data), offset + n_orig,
                          HasherUpdate(crc, data), TRUE, isDev, Append(io, "write"))
        ELSE FixLoop(S, D, offset + n_orig, HasherUpdate(crc, data), changed, isDev, io)

\* one operation on the target descriptor of fix_file: what, the position it
\* starts at (for a seek: goes to), how many bytes it moved over, and the `offset`
\* of the iteration that issued it
FdOp(op, at, len, offset) == [op |-> op, at |-> at, len |-> len, offset |-> offset]

\* where an operation leaves the cursor of the descriptor
EndOf(o) == IF o.op \in {"seek", "set_len"} THEN o.at ELSE o.at + o.len

\* `while n_actual < n_orig { target_fd.read(&mut actual[n_actual..n_orig]) }` from
\* the cursor `pos`: the reads it issues until `want` bytes are there or one returns
\* 0; a short read (`short`) returns one byte where more were asked for and there
RECURSIVE TargetReads(_, _, _, _, _)
TargetReads(D, pos, want, short, offset) ==
    LET avail == IF Len(D) > pos THEN Len(D) - pos ELSE 0
        n_read == IF short /\ avail > 1 /\ want > 1 THEN 1 ELSE Min(want, avail)
    IN  IF want = 0 THEN <<>>
        ELSE <<FdOp("read", pos, n_read, offset)>>
             \o (IF n_read = 0 THEN <<>>
                 ELSE TargetReads(D, pos + n_read, want - n_read, short, offset))

RECURSIVE SumLen(_)
SumLen(ops) == IF ops = <<>> THEN 0 ELSE Head(ops).len + SumLen(Tail(ops))

\* a fix_file that writes where the comparison left the cursor
Seek_stays(offset, cursor) == cursor

\* target_fd.seek(SeekFrom::Start(offset)): the cursor afterwards
Seek(offset, cursor) == offset

\* the block loop of fix_file with the cursors of both descriptors spelled out:
\* `spos` and `tpos` are where orig_fd and target_fd stand, every read is taken at
\* the cursor and moves it, the write is taken where the seek left it.  `short`
\* says which of the two descriptors returns short reads.  log.starts gets, at the
\* start of every iteration, `offset`, both cursors and the target's bytes; log.ops
\* gets the operations on target_fd
RECURSIVE FixCursors(_, _, _, _, _, _, _, _, _)
FixCursors(S, D, offset, spos, tpos, changed, isDev, short, log) ==
    LET avail == IF Len(S) > spos THEN Len(S) - spos ELSE 0
        n_orig == IF short.orig /\ avail > 1 THEN 1 ELSE Min(BlockSize, avail)
        data == SubSeq(S, spos + 1, spos + n_orig)
        reads == TargetReads(D, tpos, n_orig, short.target, offset)
        n_actual == SumLen(reads)
        append == n_actual < n_orig
        actual == SubSeq(D, tpos + 1, tpos + n_actual)
        at == Seek(offset, tpos + n_actual)
        starts == Append(log.starts, [offset |-> offset, orig |-> spos, target |-> tpos,
                                      dest |-> D])
        longer == Len(D) > tpos
        eof == IF isDev THEN <<>>
               ELSE <<FdOp("read", tpos, IF longer THEN 1 ELSE 0, offset)>>
                    \o (IF longer THEN <<FdOp("set_len", offset, 0, offset)>> ELSE <<>>)
        written == <<FdOp("seek", at, 0, offset), FdOp("write", at, n_orig, offset)>>
    IN  IF n_orig = 0
        THEN [ok |-> TRUE,
              data |-> IF ~isDev /\ longer THEN SubSeq(D, 1, offset) ELSE D,
              changed |-> changed \/ (~isDev /\ longer),
              starts |-> starts, ops |-> log.ops \o eof]
        ELSE IF NeedsWrite(append, data, actual)
        THEN IF isDev /\ at + n_orig > Len(D)
             THEN [ok |-> FALSE,
                   data |-> WriteAt(D, at, SubSeq(data, 1, Len(D) - at)),
                   changed |-> TRUE, starts |-> starts,
                   ops |-> log.ops \o reads \o written]
             ELSE FixCursors(S, WriteAt(D, at, data), offset + n_orig, spos + n_orig,
                             at + n_orig, TRUE, isDev, short,
                             [starts |-> starts, ops |-> log.ops \o reads \o written])
        ELSE FixCursors(S, D, offset + n_orig, spos + n_orig, tpos + n_actual, changed,
                        isDev, short, [starts |-> starts, ops |-> log.ops \o reads])

\* a recopy arm that copies over what is there without removing it
FixFileRecopy_noRemove(src, fs, orig, target, checksum, open) ==
    LET cp == copy_file(src, fs, orig, target)
        fc == fill_checksum(checksum, cp.slot)
    IN  IF ~cp.ok THEN Res(FALSE, cp.err, TRUE, cp.fs, checksum, open \o cp.io)
        ELSE IF ~fc.ok THEN Res(FALSE, "wrong checksum", TRUE, cp.fs, checksum,
                                open \o cp.io)
        ELSE Res(TRUE, "", TRUE, cp.fs, fc.slot, open \o cp.io)

\* the delete-and-recopy arm of fix_file (EISDIR or ELOOP on open)
FixFileRecopy(src, fs, orig, target, checksum, open) ==
    LET rm == remove_path(fs, target)
        cp == copy_file(src, rm.fs, orig, target)
        fc == fill_checksum(checksum, cp.slot)
    IN  IF ~rm.ok THEN Res(FALSE, rm.err, FALSE, fs, checksum, open \o rm.io)
        ELSE IF ~cp.ok THEN Res(FALSE, cp.err, TRUE, cp.fs, checksum, open \o rm.io \o cp.io)
        ELSE IF ~fc.ok THEN Res(FALSE, "wrong checksum", TRUE, cp.fs, checksum,
                                open \o rm.io \o cp.io)
        ELSE Res(TRUE, "", TRUE, cp.fs, fc.slot, open \o rm.io \o cp.io)

\* a fix_file that copies the file again whatever opening the target answered,
\* a missing target included
fix_file_recopiesMissing(src, fs, orig, target, checksum) ==
    LET cp == copy_file(src, fs, orig, target)
        fc == fill_checksum(checksum, cp.slot)
    IN  IF ~cp.ok THEN Res(FALSE, cp.err, FALSE, cp.fs, checksum, cp.io)
        ELSE IF ~fc.ok THEN Res(FALSE, "wrong checksum", TRUE, cp.fs, checksum, cp.io)
        ELSE Res(TRUE, "", TRUE, cp.fs, fc.slot, cp.io)

\* fix_file comparing the checksum before it writes: a bad checksum leaves the
\* destination as it found it
fix_file_checksFirst(src, fs, orig, target, checksum) ==
    LET open == <<Io("open", target, "policy")>>
    IN  IF ~exists(fs, target)
        THEN Res(FALSE, "ENOENT", FALSE, fs, checksum, open)
        ELSE IF of_path(fs, target) \in {"Directory", "Symlink"}
        THEN FixFileRecopy(src, fs, orig, target, checksum, open)
        ELSE IF of_path(fs, target) = "Other"
        THEN Res(FALSE, "ENXIO", FALSE, fs, checksum, open)
        ELSE LET r == FixLoop(src[orig].data, fs[target].data, 0, HasherDefault, FALSE,
                              of_path(fs, target) = "Device", <<>>)
                 fs2 == Put(fs, target, [fs[target] EXCEPT !.data = r.data])
                 io == open \o [i \in 1..Len(r.io) |-> Io(r.io[i], target, "policy")]
                 fc == fill_checksum(checksum, HasherInto(r.crc))
             IN  IF ~fc.ok
                 THEN Res(FALSE, "wrong checksum", FALSE, fs, checksum, open)
                 ELSE IF ~r.ok THEN Res(FALSE, "ENOSPC", r.changed, fs2, checksum, io)
                 ELSE Res(TRUE, "", r.changed, fs2, fc.slot, io)

\* fix_file: compare and repair block by block, then fill or check the checksum
fix_file(src, fs, orig, target, checksum) ==
    LET open == <<Io("open", target, "policy")>>
    IN  IF ~exists(fs, target)
        THEN Res(FALSE, "ENOENT", FALSE, fs, checksum, open)
        ELSE IF of_path(fs, target) \in {"Directory", "Symlink"}
        THEN FixFileRecopy(src, fs, orig, target, checksum, open)
        ELSE IF of_path(fs, target) = "Other"
        THEN Res(FALSE, "ENXIO", FALSE, fs, checksum, open)
        ELSE LET r == FixLoop(src[orig].data, fs[target].data, 0, HasherDefault, FALSE,
                              of_path(fs, target) = "Device", <<>>)
                 fs2 == Put(fs, target, [fs[target] EXCEPT !.data = r.data])
                 io == open \o [i \in 1..Len(r.io) |-> Io(r.io[i], target, "policy")]
                 fc == fill_checksum(checksum, HasherInto(r.crc))
             IN  IF ~r.ok THEN Res(FALSE, "ENOSPC", r.changed, fs2, checksum, io)
                 ELSE IF ~fc.ok
                 THEN Res(FALSE, "wrong checksum", r.changed, fs2, checksum, io)
                 ELSE Res(TRUE, "", r.changed, fs2, fc.slot, io)

\* a lockstep walk that, where the two names differ, remembers the target's only
RECURSIVE Lockstep_targetOnly(_, _, _, _)
Lockstep_targetOnly(it_orig, it_target, i, acc) ==
    IF i > Len(it_orig)
    THEN [acc EXCEPT !.target_names =
              @ \cup {it_target[j] : j \in i..Len(it_target)}]
    ELSE LET name == it_orig[i]
             res == Xor(acc.res, Crc(NameBytes(name)))
         IN  IF i > Len(it_target)
             THEN Lockstep_targetOnly(it_orig, it_target, i + 1,
                      [acc EXCEPT !.res = res, !.orig_names = @ \cup {name}])
             ELSE IF it_target[i] # name
             THEN Lockstep_targetOnly(it_orig, it_target, i + 1,
                      [acc EXCEPT !.res = res,
                                  !.target_names = @ \cup {it_target[i]}])
             ELSE Lockstep_targetOnly(it_orig, it_target, i + 1, [acc EXCEPT !.res = res])

\* the lockstep walk of fix_directory over both enumerations: the xor of the source
\* names' checksums, and the names recorded on each side
RECURSIVE Lockstep(_, _, _, _)
Lockstep(it_orig, it_target, i, acc) ==
    IF i > Len(it_orig)
    THEN [acc EXCEPT !.target_names =
              @ \cup {it_target[j] : j \in i..Len(it_target)}]
    ELSE LET name == it_orig[i]
             res == Xor(acc.res, Crc(NameBytes(name)))
         IN  IF i > Len(it_target)
             THEN Lockstep(it_orig, it_target, i + 1,
                      [acc EXCEPT !.res = res, !.orig_names = @ \cup {name}])
             ELSE IF it_target[i] # name
             THEN Lockstep(it_orig, it_target, i + 1,
                      [acc EXCEPT !.res = res, !.orig_names = @ \cup {name},
                                  !.target_names = @ \cup {it_target[i]}])
             ELSE Lockstep(it_orig, it_target, i + 1, [acc EXCEPT !.res = res])

\* a fix_directory that removes every member of the target directory
ExtraNames_all(walk) == walk.target_names

\* fix_directory: the files to be removed, target_names.difference(&orig_names)
ExtraNames(walk) == walk.target_names \ walk.orig_names

\* remove_path on every extra member of the target directory
RECURSIVE RemoveExtra(_, _, _, _)
RemoveExtra(fs, target, extra, io) ==
    IF extra = <<>> THEN Res(TRUE, "", FALSE, fs, None, io)
    ELSE LET rm == remove_path(fs, Append(target, Head(extra)))
         IN  IF ~rm.ok THEN Res(FALSE, rm.err, FALSE, fs, None, io \o rm.io)
             ELSE RemoveExtra(rm.fs, target, Tail(extra), io \o rm.io)

\* fix_directory: it_orig and it_target are the orders in which read_dir lists the
\* source and the target
fix_directory(src, fs, orig, target, checksum, it_orig, it_target) ==
    LET stat == <<Io("stat", target, "std")>>
    IN  IF ~exists(fs, target)
        THEN Res(FALSE, "ENOENT", FALSE, fs, checksum, stat)
        ELSE IF of_path(fs, target) # "Directory"
        THEN \* not a directory: remove it and copy again
             LET rm == remove_path(fs, target)
                 cp == copy_directory(src, rm.fs, orig, target, it_orig)
                 fc == fill_checksum(checksum, cp.slot)
             IN  IF ~cp.ok
                 THEN Res(FALSE, cp.err, TRUE, cp.fs, checksum, stat \o rm.io \o cp.io)
                 ELSE IF ~fc.ok
                 THEN Res(FALSE, "wrong checksum", TRUE, cp.fs, checksum,
                          stat \o rm.io \o cp.io)
                 ELSE Res(TRUE, "", TRUE, cp.fs, fc.slot, stat \o rm.io \o cp.io)
        ELSE LET walk == Lockstep(it_orig, it_target, 1,
                             [res |-> HasherInto(HasherDefault),
                              orig_names |-> {}, target_names |-> {}])
                 fc == fill_checksum(checksum, walk.res)
                 extra == ExtraNames(walk)
                 rm == RemoveExtra(fs, target, SetToSeq(extra),
                                   stat \o <<Io("read_dir", target, "std")>>)
             IN  IF ~fc.ok
                 THEN Res(FALSE, "wrong checksum", FALSE, fs, checksum,
                          stat \o <<Io("read_dir", target, "std")>>)
                 ELSE Res(TRUE, "", extra # {}, rm.fs, fc.slot, rm.io)

\* fix_symlink: the source's checksum is filled or checked first; the target is
\* rewritten when it is no symlink or its checksum differs.  symlink_checksum reads
\* the source link, copy_symlink reads it again: `later` is the source at that
\* second read
fix_symlink_at(src, later, fs, orig, target, checksum) ==
    LET c1 == symlink_checksum(src, orig)
        fc == fill_checksum(checksum, c1)
        rl == <<Io("read_link", target, "std")>>
    IN  IF ~fc.ok THEN Res(FALSE, "wrong checksum", FALSE, fs, checksum, <<>>)
        ELSE IF ~exists(fs, target) THEN Res(FALSE, "ENOENT", FALSE, fs, fc.slot, rl)
        ELSE LET isLink == of_path(fs, target) = "Symlink"
                 rm == IF isLink THEN Res(TRUE, "", FALSE, fs, None, <<>>)
                       ELSE remove_path(fs, target)
                 c2 == IF isLink THEN symlink_checksum(fs, target) ELSE None
                 cp == copy_symlink(later, rm.fs, orig, target)
             IN  IF c2 # c1
                 THEN IF cp.ok
                      THEN Res(TRUE, "", TRUE, cp.fs, fc.slot, rl \o rm.io \o cp.io)
                      ELSE Res(FALSE, cp.err, cp.fs # fs, cp.fs, fc.slot,
                               rl \o rm.io \o cp.io)
                 ELSE Res(TRUE, "", FALSE, fs, fc.slot, rl)

\* fix_symlink on a source nobody modifies during the call
fix_symlink(src, fs, orig, target, checksum) ==
    fix_symlink_at(src, src, fs, orig, target, checksum)

\* fix_path: dispatch on the kind of the source
fix_path(src, fs, orig, target, checksum, it_orig, it_target) ==
    CASE of_path(src, orig) \in {"Regular", "Device"} ->
            fix_file(src, fs, orig, target, checksum)
      [] of_path(src, orig) = "Directory" ->
            fix_directory(src, fs, orig, target, checksum, it_orig, it_target)
      [] of_path(src, orig) = "Symlink" -> fix_symlink(src, fs, orig, target, checksum)
      [] OTHER -> Res(FALSE, "cannot fix unknown fs path type", FALSE, fs, checksum, <<>>)

(* ------------------------------- state --------------------------------- *)

VARIABLES
    opt,          \* the command line: [mode, once, input]
    source_,      \* main: the canonicalized SOURCE, <<>> before canonicalize
    src,          \* the source file system, by absolute path
    dst,          \* the destination file system, by path below its mount point
    mount,        \* where the destination file system is mounted
    pc,           \* where main() is
    error,        \* the error main() ended with, "" if none
    orig_paths,   \* first_copy: the (path, size) pairs of the walk
    idx,          \* the entry first_copy, or the obligation retain, works on next
    obligations,  \* main: the obligations that remain
    keep,         \* retain: the closure's results in this round so far
    round,        \* 0 during first_copy, then the number of the drop_cache round
    seeded,       \* history: the obligations as first_copy pushed them, with the
                  \* kernel it called and the source and destination it saw
    dst0,         \* history: the destination file system before the run
    dropped,      \* drop_cache succeeded at the start of this round
    fixlog,       \* history: one record per fix_path call
    io,           \* history: the destination calls of the last step
    writes,       \* history: how many modifying calls the program issued so far
    corrupted,    \* history: the corruptions the storage inflicted
    srcChanges,   \* history: how many times the source was modified
    reporting,    \* the umount/usbreset drop_cache reports a new location (see below)
    inner,        \* what the umount/usbreset policy remembers since permission_check
    checks,       \* history: the permission_check calls and who made them
    droplog,      \* history: one record per drop_cache call
    unit          \* the last call made on a helper alone, with what it returned

vars == <<opt, source_, src, dst, mount, pc, error, orig_paths, idx, obligations, keep, round,
          seeded, dst0, dropped, fixlog, io, writes, corrupted, srcChanges,
          reporting, inner, checks, droplog, unit>>

\* the variables only permission_check and drop_cache touch
policyVars == <<inner, checks, droplog>>

Modes == {"Vm", "DirectIO", "Umount", "UsbReset"}

Obligation(source, dest, checksum, size) ==
    [source |-> source, dest |-> dest, checksum |-> checksum, size |-> size]

\* the key in `dst` of the absolute path p; a path outside the mounted file system
\* names nothing
DstKey(p) ==
    IF IsPrefix(mount, p) /\ Len(p) > Len(mount)
    THEN SubSeq(p, Len(mount) + 1, Len(p))
    ELSE <<"", "">>

\* utils::copy_size: the length of a regular file (st_size of a block device is 0)
copy_size(node) == IF node.kind = "Regular" THEN Len(node.data) ELSE 0

\* the pre-order walks walkdir can produce below p: every directory is listed in
\* some enumeration order, symlinks are not followed
RECURSIVE Walks(_, _), WalkSeq(_, _, _)
WalkSeq(fs, p, e) ==
    IF e = <<>> THEN {<<>>}
    ELSE {a \o b : a \in Walks(fs, Append(p, Head(e))), b \in WalkSeq(fs, p, Tail(e))}
\* a walker that yields a directory after its content (walkdir's contents_first)
Walks_contentsFirst(fs, p) ==
    IF fs[p].kind # "Directory" THEN {<<p>>}
    ELSE {w \o <<p>> : w \in UNION {WalkSeq(fs, p, e) : e \in Enumerations(ChildNames(fs, p))}}

Walks(fs, p) ==
    IF fs[p].kind # "Directory" THEN {<<p>>}
    ELSE {<<p>> \o w : w \in UNION {WalkSeq(fs, p, e) : e \in Enumerations(ChildNames(fs, p))}}

\* the orders read_dir can list path p of fs in
ReadDirOrders(fs, p) ==
    IF exists(fs, p) /\ of_path(fs, p) = "Directory"
    THEN Enumerations(ChildNames(fs, p))
    ELSE {<<>>}

\* the destination node holds what the source node holds: same kind and content.
\* (A directory's content, its child names, is compared by DirMatches.)
NodeMatches(s, d) == s.kind = d.kind /\ s.data = d.data

Matches(s, t) ==
    /\ exists(dst, t)
    /\ NodeMatches(src[s], dst[t])
    /\ src[s].kind = "Directory" => ChildNames(src, s) = ChildNames(dst, t)

(* ---------------------------- initial states --------------------------- *)

\* a file system from a set of <<path, node>> pairs
Fs(entries) == [p \in {e[1] : e \in entries} |-> (CHOOSE e \in entries : e[1] = p)[2]]

\* what the members x and y of a directory can be: absent, a file, a symlink, an
\* empty directory, or a directory with one member
GrandLeaf == RegularNode(<<1>>)

SubtreesAt(p, nodes, withDirs) ==
    {{}} \cup {{<<p, l>>} : l \in nodes}
         \cup (IF withDirs
               THEN {{<<p, DirectoryNode>>},
                     {<<p, DirectoryNode>>, <<Append(p, "x"), GrandLeaf>>}}
               ELSE {})

SourceDirTrees ==
    {{<<SourceRoot, DirectoryNode>>} \cup cx \cup cy :
        cx \in SubtreesAt(Append(SourceRoot, "x"),
                          {RegularNode(<<1, 0, 1>>), SymlinkNode(<<0>>)}, TRUE) \ {{<<Append(SourceRoot, "x"), DirectoryNode>>}},
        cy \in SubtreesAt(Append(SourceRoot, "y"), {RegularNode(<<1>>)}, FALSE)}

DestDirTrees(root) ==
    {{<<root, DirectoryNode>>} \cup cx \cup cy :
        cx \in SubtreesAt(Append(root, "x"),
                          {RegularNode(<<>>), RegularNode(<<1, 0, 1>>), SymlinkNode(<<0>>)},
                          TRUE),
        cy \in SubtreesAt(Append(root, "y"), {RegularNode(<<1>>)}, FALSE)}

\* the block devices of the model: one block long, or longer than any file
DeviceSizes == {BlockSize, MaxLen + 1}
Devices == UNION {{DeviceNode([i \in 1..n |-> 0]), DeviceNode([i \in 1..n |-> i % 2])} :
                    n \in DeviceSizes}

SourceData == {<<>>, <<1>>, <<0, 1>>} \cup {[i \in 1..MaxLen |-> i % 2]}
SourceTargets == {<<0>>, <<1, 1>>}

SourceTrees ==
    {{<<SourceRoot, RegularNode(d)>>} : d \in SourceData}
    \cup {{<<SourceRoot, DeviceNode([i \in 1..BlockSize |-> 1])>>}}
    \cup {{<<SourceRoot, SymlinkNode(l)>>} : l \in SourceTargets}
    \cup {{<<SourceRoot, OtherNode>>}}
    \cup SourceDirTrees

\* the destinations a source is tried on: every content of its own kind, and a
\* sample of the other kinds
DestTrees(s) ==
    LET root == <<"dst">>
        kind == (CHOOSE e \in s : e[1] = SourceRoot)[2].kind
    IN  {{}}
        \cup {{<<root, RegularNode(d)>>} :
                d \in IF kind = "Regular" THEN Strings(0, MaxLen) ELSE {<<1>>, <<0, 1, 1>>}}
        \cup {{<<root, n>>} : n \in IF kind \in {"Regular", "Device"} THEN Devices ELSE {}}
        \cup {{<<root, SymlinkNode(l)>>} :
                l \in IF kind = "Symlink" THEN Strings(1, MaxLen) ELSE {<<1>>}}
        \cup (IF kind = "Directory" THEN DestDirTrees(root)
              ELSE {{<<root, DirectoryNode>>, <<Append(root, "x"), GrandLeaf>>}})

\* no helper was called alone
NoCall == [fn |-> "none"]

\* UmountCacheManager(None), UsbResetCacheManager(None): permission_check has not
\* succeeded; afterwards Inner holds the block (where it is mounted, or the device
\* node) and, for usbreset, the Identifier
Uninitialised == [at |-> <<>>, id |-> "None"]

Inner(at, id) == [at |-> at, id |-> id]

\* the SOURCE arguments a source tree is tried with: its root; for the sources of
\* LinkedSources also a symlink to the root, next to it; and once a path that
\* does not exist
LinkPath == <<"lnk">>
MissingPath == <<"nowhere">>

LinkedSources ==
    {{<<SourceRoot, RegularNode(<<1>>)>>}, {<<SourceRoot, SymlinkNode(<<0>>)>>},
     {<<SourceRoot, DirectoryNode>>}}

Inputs(s) ==
    {SourceRoot}
    \cup (IF s \in LinkedSources THEN {LinkPath} ELSE {})
    \cup (IF s = {<<SourceRoot, OtherNode>>} THEN {MissingPath} ELSE {})

\* the symlink the SOURCE argument names, if it is one: its target is "./src"
LinkFor(input) ==
    IF input = LinkPath THEN {<<LinkPath, SymlinkNode(NameBytes(SourceRoot[1]))>>} ELSE {}

Init ==
    /\ \E s \in SourceTrees : \E d \in DestTrees(s) : \E i \in Inputs(s) :
         /\ opt \in [mode : Modes, once : BOOLEAN, input : {i}]
         /\ src = Fs(s \cup LinkFor(i))
         /\ dst = Fs(d)
    /\ source_ = <<>>
    /\ mount = MountPoint
    /\ pc = "canonicalize"
    /\ error = ""
    /\ orig_paths = <<>>
    /\ idx = 1
    /\ obligations = <<>>
    /\ keep = <<>>
    /\ round = 0
    /\ seeded = <<>>
    /\ dst0 = dst
    /\ dropped = FALSE
    /\ fixlog = <<>>
    /\ io = <<>>
    /\ writes = 0
    /\ corrupted = <<>>
    /\ srcChanges = 0
    /\ reporting \in (IF opt.mode = "Umount" THEN BOOLEAN ELSE {FALSE})
    /\ inner = Uninitialised
    /\ checks = <<>>
    /\ droplog = <<>>
    /\ unit = NoCall

(* ------------------------------ policies ------------------------------- *)

\* test_file of DirectIOCacheManager::permission_check: open(path, O_APPEND |
\* O_DIRECT, and O_CREAT if `create`), the descriptor dropped at once.  `opens` is
\* what the open returns where it can find or make the file; `leftover` says whether
\* an open refused with EINVAL has made the file all the same
test_file(fs, path, create, opens, leftover) ==
    LET found == exists(fs, path)
        makes == ~found /\ create /\ CanCreate(fs, path)
        made == makes /\ (opens = "ok" \/ (opens = "EINVAL" /\ leftover))
    IN  [ok |-> (found \/ makes) /\ opens = "ok",
         err |-> IF ~(found \/ makes) THEN "open(O_DIRECT): ENOENT"
                 ELSE IF opens = "EINVAL" THEN "Filesystem does not support direct IO"
                 ELSE IF opens = "ok" THEN ""
                 ELSE "open(O_DIRECT)",
         fs |-> IF made THEN Put(fs, path, RegularNode(<<>>)) ELSE fs]

\* the temporary directory TempDir::new_in(path) makes
TmpDir(path) == Append(path, ".tmp")

\* a permission_check that propagates the result of the open before it cleans up
directio_probe_returnsEarly(fs, path, opens, leftover, tmpFails) ==
    LET stat == <<Io("stat", path, "std")>>
        dir == IF exists(fs, path) /\ of_path(fs, path) = "Directory"
               THEN Put(fs, TmpDir(path), DirectoryNode) ELSE fs
        probe == IF exists(fs, path) /\ of_path(fs, path) = "Directory"
                 THEN Append(TmpDir(path), "test") ELSE path
        t == test_file(dir, probe, ~exists(fs, path) \/ of_path(fs, path) = "Directory",
                       opens, leftover)
    IN  IF exists(fs, path) /\ of_path(fs, path) \in {"Symlink", "Other"}
        THEN Res(TRUE, "", FALSE, fs, None, stat)
        ELSE IF exists(fs, path) /\ of_path(fs, path) = "Directory" /\ tmpFails
        THEN Res(FALSE, "creating a temporary directory", FALSE, fs, None, stat)
        ELSE Res(t.ok, t.err, FALSE, IF t.ok THEN fs ELSE t.fs, None, stat)

\* DirectIOCacheManager::permission_check on `path`, with what it does to the file
\* system: nothing for a symlink, for Other and for an existing file or device; a
\* temporary directory with a file `test` in an existing directory, closed (removed
\* with all it holds) before the result of the open is looked at; a file at a path
\* that does not exist, removed (NotFound ignored) before the result is looked at
\* (the removals themselves are taken to succeed)
directio_probe(fs, path, opens, leftover, tmpFails) ==
    LET stat == <<Io("stat", path, "std")>>
    IN  IF ~exists(fs, path)
        THEN LET t == test_file(fs, path, TRUE, opens, leftover)
                 removed == IF exists(t.fs, path) THEN RemoveTree(t.fs, path) ELSE t.fs
             IN  Res(t.ok, t.err, FALSE, removed, None,
                     stat \o <<Io("create", path, "policy"), Io("remove_file", path, "std")>>)
        ELSE IF of_path(fs, path) \in {"Symlink", "Other"}
        THEN Res(TRUE, "", FALSE, fs, None, stat)
        ELSE IF of_path(fs, path) \in {"Device", "Regular"}
        THEN LET t == test_file(fs, path, FALSE, opens, leftover)
             IN  Res(t.ok, t.err, FALSE, t.fs, None, stat \o <<Io("open", path, "policy")>>)
        ELSE IF tmpFails
        THEN Res(FALSE, "creating a temporary directory", FALSE, fs, None,
                 stat \o <<Io("create_dir", TmpDir(path), "std")>>)
        ELSE LET t == test_file(Put(fs, TmpDir(path), DirectoryNode),
                                Append(TmpDir(path), "test"), TRUE, opens, leftover)
             IN  Res(t.ok, t.err, FALSE, RemoveTree(t.fs, TmpDir(path)), None,
                     stat \o <<Io("create_dir", TmpDir(path), "std"),
                               Io("create", Append(TmpDir(path), "test"), "policy"),
                               Io("remove_dir_all", TmpDir(path), "std")>>)

\* DirectIOCacheManager::permission_check where the temporary directory can be made;
\* `supported` says whether the file system accepts O_DIRECT
directio_permission_check(fs, path, supported) ==
    directio_probe(fs, path, IF supported THEN "ok" ELSE "EINVAL", TRUE, FALSE)

\* CacheManager::permission_check of the selected mode; `usable` says whether the
\* policy's precondition (uid 0, O_DIRECT, udisks, the usb device) is met
permission_check(mode, fs, path, usable) ==
    IF mode = "DirectIO" THEN directio_permission_check(fs, path, usable)
    ELSE Res(usable, IF usable THEN "" ELSE "permission", FALSE, fs, None, <<>>)

\* udev::leftpad: the width of the bus and device numbers in /dev/bus/usb
PadWidth == 3

\* a leftpad that fills on the right
leftpad_right(s) ==
    IF Len(s) > PadWidth
    THEN [ok |-> FALSE, value |-> <<>>]
    ELSE [ok |-> TRUE, value |-> [i \in 1..PadWidth |-> IF i <= Len(s) THEN s[i] ELSE "0"]]

\* udev::leftpad: res = [b'0'; 3]; res[(3 - len)..].copy_from_slice(s)
leftpad(s) ==
    IF Len(s) > PadWidth
    THEN [ok |-> FALSE, value |-> <<>>]
    ELSE [ok |-> TRUE,
          value |-> [i \in 1..PadWidth |->
                        IF i <= PadWidth - Len(s) THEN "0" ELSE s[i - (PadWidth - Len(s))]]]

\* udev::reset_usb_hub on a hub with attributes busnum and devnum: the device file
\* it opens, and whether the ioctl is issued
reset_usb_hub(busnum, devnum, dryrun) ==
    LET bus == leftpad(busnum)
        dev == leftpad(devnum)
    IN  IF ~bus.ok THEN [ok |-> FALSE, err |-> "bus number", buspath |-> <<>>, ioctl |-> FALSE]
        ELSE IF ~dev.ok
        THEN [ok |-> FALSE, err |-> "dev number", buspath |-> <<>>, ioctl |-> FALSE]
        ELSE [ok |-> TRUE, err |-> "",
              buspath |-> <<"/", "dev", "bus", "usb", bus.value, dev.value>>,
              ioctl |-> ~dryrun]

\* how many times the destination's storage may come back somewhere else
MaxMoves == 1

\* where the file system (or the device node) of the destination can be found
AltMount == <<"alt">>
Locations == {MountPoint, AltMount}

\* Option<Replacement>::None
NoReplacement == [before |-> <<>>, after |-> <<>>]

Replacement(before, after) == [before |-> before, after |-> after]

\* what drop_cache returns and does: the Result, the Replacement, the udisks and usb
\* operations issued, where the storage is afterwards, what the policy remembers,
\* and whether the policy ran its permission_check again
Dropped(ok, err, replacement, ops, at, mem, rechecked) ==
    [ok |-> ok, err |-> err, replacement |-> replacement, ops |-> ops, at |-> at,
     inner |-> mem, rechecked |-> rechecked]

NotReady == "tried to drop_cache on uninitialised UmountCacheManager"

\* an umount drop_cache that does not look whether permission_check has run
umount_drop_cache_unchecked(mem, at, path, back, fails) ==
    IF fails
    THEN Dropped(FALSE, "Unmounting", NoReplacement, <<"unmount">>, at, mem, FALSE)
    ELSE IF ~IsPrefix(back, path)
    THEN Dropped(FALSE, "was not remounted on a parent", NoReplacement,
                 <<"unmount", "mount">>, back, mem, FALSE)
    ELSE Dropped(TRUE, "", NoReplacement, <<"unmount", "mount">>, back, mem, FALSE)

\* UmountCacheManager::drop_cache(path): the storage is at `at`; udisks fails to
\* unmount (`fails`) or remounts the file system at `back`
umount_drop_cache(mem, at, path, back, fails) ==
    IF mem = Uninitialised
    THEN Dropped(FALSE, NotReady, NoReplacement, <<>>, at, mem, FALSE)
    ELSE IF fails
    THEN Dropped(FALSE, "Unmounting", NoReplacement, <<"unmount">>, at, mem, FALSE)
    ELSE IF ~IsPrefix(back, path)
    THEN Dropped(FALSE, "was not remounted on a parent", NoReplacement,
                 <<"unmount", "mount">>, back, mem, FALSE)
    ELSE Dropped(TRUE, "", NoReplacement, <<"unmount", "mount">>, back, mem, FALSE)

\* UsbResetCacheManager::drop_cache(path): unmount, eject, reset the hub, wait for
\* the file system (Identifier::Fs) or the device (Identifier::BlockDevice) to
\* reappear, at `back`
usbreset_drop_cache(mem, at, path, back, fails) ==
    IF mem = Uninitialised
    THEN Dropped(FALSE, NotReady, NoReplacement, <<>>, at, mem, FALSE)
    ELSE IF fails
    THEN Dropped(FALSE, "Unmounting", NoReplacement, <<"unmount">>, at, mem, FALSE)
    ELSE IF mem.id = "Fs"
    THEN IF ~IsPrefix(back, path)
         THEN Dropped(FALSE, "was not remounted on a parent", NoReplacement,
                      <<"unmount", "eject", "reset", "mount">>, back, mem, FALSE)
         ELSE Dropped(TRUE, "", NoReplacement,
                      <<"unmount", "eject", "reset", "mount">>, back, mem, FALSE)
    ELSE IF ~IsPrefix(back, path)
         THEN Dropped(FALSE, "reappeared at", NoReplacement,
                      <<"unmount", "eject", "reset">>, back, mem, FALSE)
         ELSE Dropped(TRUE, "", NoReplacement,
                      <<"unmount", "eject", "reset">>, back, mem, FALSE)

\* how many times usbreset's drop_cache looks for the device after the reset
PollLimit == 60

\* the state of a sequence of steps that stops at the first failure: the
\* operations issued so far, in order
Started == [ok |-> TRUE, err |-> "", ops |-> <<>>]

\* one step `op`, skipped when a step before it failed; it fails with `err` if `fails`
Step(st, op, fails, err) ==
    IF ~st.ok THEN st
    ELSE [ok |-> ~fails, err |-> IF fails THEN err ELSE "", ops |-> Append(st.ops, op)]

\* `for` over n objects, the failAt-th of which (if any) fails
RECURSIVE ForEach(_, _, _, _, _, _)
ForEach(st, op, i, n, failAt, err) ==
    IF i > n THEN st
    ELSE ForEach(Step(st, op, i = failAt, err), op, i + 1, n, failAt, err)

\* a polling loop that looks once more than it should
PollAgain_oneMore(n) == n <= PollLimit + 1

\* `for _ in 0..60`: the n-th iteration is run
PollAgain(n) == n <= PollLimit

\* the polling loop of usbreset's drop_cache from its n-th iteration: sleep one
\* second, update udisks, look the identity up; `appears` tells at which lookup
\* something matches (0: never) and whether one block matches or several
RECURSIVE PollFrom(_, _, _)
PollFrom(st, n, appears) ==
    IF ~st.ok THEN [st |-> st, found |-> FALSE]
    ELSE IF ~PollAgain(n)
    THEN [st |-> [st EXCEPT !.ok = FALSE, !.err = "Timeout reached"], found |-> FALSE]
    ELSE LET looked == Step(Step(Step(st, "sleep", FALSE, ""), "update", FALSE, ""),
                            "lookup", FALSE, "")
         IN  IF n # appears.at THEN PollFrom(looked, n + 1, appears)
             ELSE IF appears.several
             THEN [st |-> [looked EXCEPT !.ok = FALSE, !.err = "Several"], found |-> FALSE]
             ELSE [st |-> looked, found |-> TRUE]

\* UsbResetCacheManager::drop_cache step by step.  env: the Identifier kept by
\* permission_check (id), the mounted blocks of the drive group and the one whose
\* unmount fails (mounted, unmountFail), the drives and the one whose eject fails
\* (drives, ejectFail), the hub's numbers and whether the open or the ioctl fails
\* (busnum, devnum, resetFail), when the device reappears (appears), whether
\* mounting fails and whether it is back where `path` is (mountFail, inPlace)
usbreset_steps(ready, env) ==
    IF ~ready THEN [Started EXCEPT !.ok = FALSE, !.err = NotReady]
    ELSE
    LET unmounted == ForEach(Started, "unmount", 1, env.mounted, env.unmountFail,
                             "Unmounting")
        ejected == ForEach(unmounted, "eject", 1, env.drives, env.ejectFail, "Ejecting")
        hub == reset_usb_hub(env.busnum, env.devnum, FALSE)
        opened == IF ~ejected.ok THEN ejected
                  ELSE IF ~hub.ok
                  THEN [ejected EXCEPT !.ok = FALSE, !.err = "Cannot reset usb hub"]
                  ELSE Step(ejected, "open", env.resetFail = "open", "Cannot reset usb hub")
        reset == IF hub.ok /\ hub.ioctl
                 THEN Step(opened, "ioctl", env.resetFail = "ioctl", "Cannot reset usb hub")
                 ELSE opened
        polled == PollFrom(reset, 1, env.appears)
    IN  IF ~polled.found THEN polled.st
        ELSE IF env.id = "Fs"
        THEN LET mounted == Step(polled.st, "mount", env.mountFail, "Remounting")
                 placed == Step(mounted, "starts_with", ~env.inPlace,
                                "was not remounted on a parent")
             IN  Step(placed, "stat_parent", FALSE, "")
        ELSE Step(polled.st, "validate", ~env.inPlace, "reappeared at")

\* UsbResetCacheManager::permission_check as far as the hub is concerned: uid 0,
\* every drive ejectable, then reset_usb_hub(&usbhub, /* dryrun */ true)
usbreset_permission_check(root, ejectable, busnum, devnum, openFails) ==
    LET hub == reset_usb_hub(busnum, devnum, TRUE)
        checked == Step(Step(Started, "getuid", ~root, "requires root privileges"),
                        "drives", ~ejectable, "is not ejectable")
        opened == IF ~checked.ok THEN checked
                  ELSE IF ~hub.ok
                  THEN [checked EXCEPT !.ok = FALSE, !.err = "Cannot access usb device file"]
                  ELSE Step(checked, "open", openFails, "Cannot access usb device file")
    IN  IF hub.ok /\ hub.ioctl
        THEN Step(opened, "ioctl", FALSE, "")
        ELSE opened

\* a drop_cache of the umount or usbreset policy as the trait CacheManager declares
\* it and the specification describes it: when the storage is back at another place
\* than the remembered one it returns the Replacement and runs its permission_check
\* again (`usable`) on the rewritten path
reporting_drop_cache(mode, mem, at, path, back, fails, usable) ==
    LET ops == IF mode = "Umount" THEN <<"unmount", "mount">>
               ELSE IF mem.id = "Fs" THEN <<"unmount", "eject", "reset", "mount">>
               ELSE <<"unmount", "eject", "reset">>
    IN  IF mem = Uninitialised
        THEN Dropped(FALSE, NotReady, NoReplacement, <<>>, at, mem, FALSE)
        ELSE IF fails
        THEN Dropped(FALSE, "Unmounting", NoReplacement, <<"unmount">>, at, mem, FALSE)
        ELSE IF back = mem.at
        THEN Dropped(TRUE, "", NoReplacement, ops, back, mem, FALSE)
        ELSE IF ~usable
        THEN Dropped(FALSE, "permission", NoReplacement, ops, back, mem, TRUE)
        ELSE Dropped(TRUE, "", Replacement(mem.at, back), ops, back,
                     Inner(back, mem.id), TRUE)

\* one operation of the page cache policy: `at` counts the ancestors of the path
\* it is issued on (1: the path itself, 2: its parent, ...; 0: /proc/sys/vm)
VmOp(op, at) == [op |-> op, at |-> at]

\* a second half that writes whether or not the sync went through
vm_write_anyway(st, noRoot, fail) ==
    IF noRoot THEN st
    ELSE Step(Step([st EXCEPT !.ok = TRUE, !.err = ""],
                   VmOp("create", 0), fail = "create", "open /proc/sys/vm/drop_caches"),
              VmOp("write 3", 0), fail = "write", "write 3 to /proc/sys/vm/drop_caches")

\* global_drop_cache, "second drop cache": unless CCCP_NO_ROOT is set, create
\* /proc/sys/vm/drop_caches and write "3"; reached only when the sync returned Ok
vm_write(st, noRoot, fail) ==
    IF noRoot THEN st
    ELSE Step(Step(st, VmOp("create", 0), fail = "create", "open /proc/sys/vm/drop_caches"),
              VmOp("write 3", 0), fail = "write", "write 3 to /proc/sys/vm/drop_caches")

\* global_drop_cache, "first sync", on the at-th ancestor of the path, whose kinds
\* are `kinds` ("absent": FileKind::of_path fails): syncfs for a regular file or a
\* directory, sync_all for a device, the parent for a symlink, an error for Other
RECURSIVE vm_sync(_, _, _, _)
vm_sync(st, kinds, at, fail) ==
    LET kind == kinds[at]
        stat == Step(st, VmOp("stat", at), kind = "absent", "stat to drop cache")
    IN  IF kind \in {"Directory", "Regular"}
        THEN Step(Step(stat, VmOp("open", at), fail = "open", "open for sync to drop cache"),
                  VmOp("syncfs", at), fail = "sync", "syncfs to drop cache")
        ELSE IF kind = "Symlink"
        THEN IF at = Len(kinds)
             THEN [stat EXCEPT !.ok = FALSE, !.err = "is a symlink and has no parent"]
             ELSE vm_sync(stat, kinds, at + 1, fail)
        ELSE IF kind = "Device"
        THEN Step(Step(stat, VmOp("open", at), fail = "open", "open to drop cache"),
                  VmOp("fsync", at), fail = "sync", "fsync to drop cache")
        ELSE IF kind = "Other"
        THEN [stat EXCEPT !.ok = FALSE, !.err = "wrong file type"]
        ELSE stat

\* vm::global_drop_cache, which is all of PageCacheManager::drop_cache: its value
\* is Ok(()) or an error, there is no Replacement in it
global_drop_cache(kinds, fail, noRoot) ==
    LET st == vm_write(vm_sync(Started, kinds, 1, fail), noRoot, fail)
    IN  [ok |-> st.ok, err |-> st.err, ops |-> st.ops, replacement |-> NoReplacement]

\* PageCacheManager::permission_check: getuid().is_root() || CCCP_NO_ROOT is set
vm_permission_check(root, noRoot) ==
    IF root \/ noRoot THEN [ok |-> TRUE, err |-> ""]
    ELSE [ok |-> FALSE, err |-> "PageCacheManager needs root privileges"]

\* CacheManager::drop_cache of the selected mode
drop_cache(mode, reports, mem, at, path, back, fails, usable) ==
    IF mode = "DirectIO"
    THEN Dropped(TRUE, "", NoReplacement, <<>>, at, mem, FALSE)
    ELSE IF mode = "Vm"
    THEN Dropped(~fails, IF fails THEN "drop_caches" ELSE "", NoReplacement,
                 <<"sync", "drop_caches">>, at, mem, FALSE)
    ELSE IF reports
    THEN reporting_drop_cache(mode, mem, at, path, back, fails, usable)
    ELSE IF mode = "Umount"
    THEN umount_drop_cache(mem, at, path, back, fails)
    ELSE usbreset_drop_cache(mem, at, path, back, fails)

\* main: a main that rewrites only the first obligation
apply_replacement_first(obs, replacement) ==
    IF replacement = NoReplacement THEN obs
    ELSE [k \in 1..Len(obs) |->
            IF k = 1
            THEN [obs[k] EXCEPT !.dest =
                     change_prefixes(replacement.before, replacement.after, @)]
            ELSE obs[k]]

\* main: `if let Some(Replacement { before, after })`: every obligation's dest is
\* passed through change_prefixes(before, after)
apply_replacement(obs, replacement) ==
    IF replacement = NoReplacement THEN obs
    ELSE [k \in 1..Len(obs) |->
            [obs[k] EXCEPT !.dest =
                change_prefixes(replacement.before, replacement.after, @)]]

(* ------------------------------- actions ------------------------------- *)

Fail(msg) == pc' = "failed" /\ error' = msg

\* the record fixlog keeps of one fix_path call on obligation o with result r:
\* what was passed, what came back, and the source and destination it saw and left
FixRecord(o, prefilled, r, t) ==
    [round |-> round, source |-> o.source, dest |-> o.dest, key |-> t,
     prefilled |-> prefilled, dropped |-> dropped,
     ok |-> r.ok, err |-> r.err, changed |-> r.changed, slot |-> r.slot, io |-> r.io,
     reference |-> src[o.source], want |-> ChildNames(src, o.source),
     fsBefore |-> dst, fsAfter |-> r.fs]

\* Path::canonicalize: every symlink is resolved (a link's target is a name next to
\* the link); it fails on a path, or a link target, that does not exist
RECURSIVE realpath(_, _, _)
realpath(fs, path, hops) ==
    IF ~exists(fs, path) \/ hops = 0 THEN [ok |-> FALSE, path |-> <<>>]
    ELSE IF of_path(fs, path) = "Symlink"
    THEN realpath(fs, Append(Parent(path), NameOf(fs[path].data)), hops - 1)
    ELSE [ok |-> TRUE, path |-> path]

\* main.rs canonicalize: the path canonicalized if that succeeds, else the parent
\* canonicalized (parents are canonical here) with the file name pushed, which
\* must exist if must_exist
canonicalize(fs, path, must_exist) ==
    LET easy == realpath(fs, path, 2)
    IN  IF easy.ok THEN [ok |-> TRUE, path |-> easy.path]
        ELSE IF must_exist /\ ~exists(fs, path)
        THEN [ok |-> FALSE, path |-> path]
        ELSE [ok |-> TRUE, path |-> path]

\* main: source_ = canonicalize(&opt.input, true)?; the output path of the model
\* is canonical and its parent exists
Canonicalize ==
    /\ pc = "canonicalize"
    /\ LET c == canonicalize(src, opt.input, TRUE)
       IN  IF c.ok
           THEN source_' = c.path /\ pc' = "permission_check" /\ error' = error
           ELSE source_' = source_ /\ Fail("Canonicalizing input path")
    /\ UNCHANGED policyVars
    /\ UNCHANGED <<seeded, dst0, opt, reporting, unit, src, dst, mount, orig_paths, idx,
                   obligations, keep, round, dropped, fixlog, io, writes, corrupted,
                   srcChanges>>

\* main: cache_manager.permission_check(&target)
PermissionCheck ==
    /\ pc = "permission_check"
    /\ \E usable \in BOOLEAN :
         LET r == permission_check(opt.mode, dst, DstKey(TargetRoot), usable)
         IN  /\ io' = r.io
             /\ dst' = r.fs
             /\ writes' = writes + CountWrites(r.io)
             /\ checks' = Append(checks, [by |-> "main", ok |-> r.ok])
             /\ IF r.ok
                THEN /\ pc' = "enumerate" /\ error' = error
                     /\ inner' = IF opt.mode \in {"Umount", "UsbReset"}
                                 THEN Inner(mount,
                                            IF opt.mode = "UsbReset"
                                               /\ exists(dst, DstKey(TargetRoot))
                                               /\ of_path(dst, DstKey(TargetRoot)) = "Device"
                                            THEN "BlockDevice" ELSE "Fs")
                                 ELSE inner
                ELSE Fail(r.err) /\ inner' = inner
    /\ UNCHANGED <<seeded, dst0, opt, source_, reporting, unit, src, mount, orig_paths, idx, obligations,
                   keep, round, dropped, fixlog, corrupted, srcChanges, droplog>>

\* first_copy: the walk of the source, with the size of every entry
Enumerate ==
    /\ pc = "enumerate"
    /\ \E w \in Walks(src, source_) :
         orig_paths' = [i \in 1..Len(w) |-> [path |-> w[i], size |-> copy_size(src[w[i]])]]
    /\ pc' = "first_copy"
    /\ idx' = 1
    /\ io' = <<>>
    /\ UNCHANGED policyVars
    /\ UNCHANGED <<seeded, dst0, opt, source_, reporting, unit, src, dst, mount, error, obligations, keep, round, dropped,
                   fixlog, writes, corrupted, srcChanges>>

\* first_copy: one entry of the walk is fixed if its destination exists, copied
\* otherwise, and its obligation is pushed
FirstCopyStep ==
    /\ pc = "first_copy"
    /\ idx <= Len(orig_paths)
    /\ LET source == orig_paths[idx].path
           dest == change_prefixes(source_, TargetRoot, source)
           t == DstKey(dest)
       IN  \E it_orig \in ReadDirOrders(src, source), it_target \in ReadDirOrders(dst, t) :
             LET found == exists(dst, t)
                 r == IF found
                      THEN fix_path(src, dst, source, t, None, it_orig, it_target)
                      ELSE copy_path(src, dst, source, t, it_orig)
                 o == Obligation(source, dest, r.slot, orig_paths[idx].size)
             IN  /\ dst' = r.fs
                 /\ io' = r.io
                 /\ writes' = writes + CountWrites(r.io)
                 /\ fixlog' = IF found THEN Append(fixlog, FixRecord(o, None, r, t))
                              ELSE fixlog
                 /\ IF r.ok
                    THEN /\ obligations' = Append(obligations, o)
                         /\ seeded' = Append(seeded,
                                [source |-> o.source, dest |-> o.dest,
                                 checksum |-> o.checksum, size |-> o.size,
                                 call |-> IF found THEN "fix_path" ELSE "copy_path",
                                 fsBefore |-> dst, fsAfter |-> r.fs,
                                 reference |-> src[source],
                                 want |-> ChildNames(src, source)])
                         /\ idx' = idx + 1
                         /\ pc' = IF idx = Len(orig_paths) THEN "loop" ELSE pc
                         /\ error' = error
                    ELSE /\ Fail(r.err)
                         /\ UNCHANGED <<obligations, seeded, idx>>
    /\ UNCHANGED policyVars
    /\ UNCHANGED <<dst0, opt, source_, reporting, unit, src, mount, orig_paths, keep, round, dropped, corrupted,
                   srcChanges>>

\* how often the storage has come back at another place so far
Moves == Cardinality({k \in 1..Len(droplog) : droplog[k].from # droplog[k].to})

\* main: the loop's drop_cache(&target) and the rewriting of the obligations when it
\* returns a Replacement; only DirectIO's drop_cache cannot fail
DropCache ==
    /\ pc = "loop"
    /\ obligations # <<>>
    /\ \E fails \in (IF opt.mode = "DirectIO" THEN {FALSE} ELSE BOOLEAN),
          usable \in (IF reporting THEN BOOLEAN ELSE {TRUE}),
          back \in (IF opt.mode \in {"Umount", "UsbReset"} /\ Moves < MaxMoves
                    THEN Locations ELSE {mount}) :
         LET r == drop_cache(opt.mode, reporting, inner, mount, TargetRoot, back, fails,
                             usable)
             rewritten == apply_replacement(obligations, r.replacement)
         IN  /\ mount' = r.at
             /\ inner' = r.inner
             /\ checks' = IF r.rechecked
                          THEN Append(checks, [by |-> "policy", ok |-> r.ok])
                          ELSE checks
             /\ droplog' = Append(droplog,
                    [round |-> round + 1, mode |-> opt.mode, ready |-> inner # Uninitialised,
                     from |-> mount, to |-> r.at, ok |-> r.ok, err |-> r.err,
                     replacement |-> r.replacement, rechecked |-> r.rechecked,
                     ops |-> r.ops, before |-> obligations,
                     after |-> IF r.ok THEN rewritten ELSE obligations])
             /\ IF r.ok
                THEN /\ obligations' = rewritten
                     /\ pc' = "fix"
                     /\ round' = round + 1
                     /\ dropped' = TRUE
                     /\ idx' = 1
                     /\ keep' = <<>>
                     /\ error' = error
                ELSE /\ Fail("Dropping cache")
                     /\ UNCHANGED <<obligations, round, dropped, idx, keep>>
    /\ io' = <<>>
    /\ UNCHANGED <<seeded, dst0, opt, source_, reporting, unit, src, dst, orig_paths, fixlog, writes,
                   corrupted, srcChanges>>

\* main: the closure of obligations.retain on the next obligation; an error of
\* fix_path panics in unwrap()
FixStep ==
    /\ pc = "fix"
    /\ idx <= Len(obligations)
    /\ LET o == obligations[idx]
           t == DstKey(o.dest)
       IN  \E it_orig \in ReadDirOrders(src, o.source), it_target \in ReadDirOrders(dst, t) :
             LET r == fix_path(src, dst, o.source, t, o.checksum, it_orig, it_target)
             IN  /\ dst' = r.fs
                 /\ io' = r.io
                 /\ writes' = writes + CountWrites(r.io)
                 /\ fixlog' = Append(fixlog, FixRecord(o, o.checksum, r, t))
                 /\ IF r.ok
                    THEN /\ keep' = Append(keep, r.changed)
                         /\ idx' = idx + 1
                         /\ UNCHANGED <<pc, error>>
                    ELSE /\ Fail(r.err)
                         /\ UNCHANGED <<keep, idx>>
    /\ UNCHANGED policyVars
    /\ UNCHANGED <<seeded, dst0, opt, source_, reporting, unit, src, mount, orig_paths, obligations, round, dropped, corrupted,
                   srcChanges>>

\* a retain that drops every obligation, fixed or not
Retain_none(s, flags) == <<>>

\* a retain that keeps every obligation, fixed or not
Retain_all(s, flags) == s

\* the elements of s whose flag is set, in order
RECURSIVE Retain(_, _)
Retain(s, flags) ==
    IF s = <<>> THEN <<>>
    ELSE (IF Head(flags) THEN <<Head(s)>> ELSE <<>>) \o Retain(Tail(s), Tail(flags))

\* a main that goes on to another round in spite of --once
RoundEnd_ignoresOnce ==
    /\ pc = "fix"
    /\ idx > Len(obligations)
    /\ obligations' = Retain(obligations, keep)
    /\ pc' = "loop" /\ error' = error
    /\ dropped' = FALSE
    /\ keep' = <<>>
    /\ io' = <<>>
    /\ UNCHANGED policyVars
    /\ UNCHANGED <<seeded, dst0, opt, source_, reporting, unit, src, dst, mount, orig_paths, idx, round, fixlog, writes,
                   corrupted, srcChanges>>

\* main: retain is over; with --once, obligations that remain are an error
RoundEnd ==
    /\ pc = "fix"
    /\ idx > Len(obligations)
    /\ obligations' = Retain(obligations, keep)
    /\ IF opt.once /\ obligations' # <<>>
       THEN Fail("Still files to fix")
       ELSE pc' = "loop" /\ error' = error
    /\ dropped' = FALSE
    /\ keep' = <<>>
    /\ io' = <<>>
    /\ UNCHANGED policyVars
    /\ UNCHANGED <<seeded, dst0, opt, source_, reporting, unit, src, dst, mount, orig_paths, idx, round, fixlog, writes,
                   corrupted, srcChanges>>

\* main: no obligation is left; progress.done(), Ok(())
Finish ==
    /\ pc = "loop"
    /\ obligations = <<>>
    /\ pc' = "done"
    /\ io' = <<>>
    /\ UNCHANGED policyVars
    /\ UNCHANGED <<seeded, dst0, opt, source_, reporting, unit, src, dst, mount, error, orig_paths, idx, obligations, keep,
                   round, dropped, fixlog, writes, corrupted, srcChanges>>

(* ----------------------------- environment ----------------------------- *)

\* where first_copy put the copy of source path s: the key in `dst` of its
\* destination, which stays the same wherever the storage is mounted later
TargetOf(s) ==
    LET dest == change_prefixes(SourceRoot, TargetRoot, s)
    IN  SubSeq(dest, Len(MountPoint) + 1, Len(dest))

\* the destination of walk entry e is a file or device that holds the source's bytes
KnownGood(e) ==
    LET t == TargetOf(e.path)
    IN  /\ src[e.path].kind \in {"Regular", "Device"}
        /\ exists(dst, t)
        /\ dst[t].kind \in {"Regular", "Device"}
        /\ Len(dst[t].data) >= Len(src[e.path].data)
        /\ SubSeq(dst[t].data, 1, Len(src[e.path].data)) = src[e.path].data
        /\ dst[t].kind = "Regular" => Len(dst[t].data) = Len(src[e.path].data)

\* between two rounds the storage returns other bytes than were written: the first
\* or the last byte of a known-good copy changes (the hook `corrupt` of main.rs,
\* commented out)
Corrupt ==
    /\ pc = "loop"
    /\ obligations # <<>>
    /\ Len(corrupted) < MaxCorrupt
    /\ \E k \in 1..Len(orig_paths) :
         LET e == orig_paths[k]
             dest == change_prefixes(SourceRoot, TargetRoot, e.path)
             t == TargetOf(e.path)
         IN  /\ KnownGood(e)
             /\ src[e.path].data # <<>>
             /\ \E i \in {1, Len(src[e.path].data)} :
                  dst' = [dst EXCEPT ![t].data[i] = 1 - @]
             /\ corrupted' = Append(corrupted,
                    [source |-> e.path, dest |-> dest, round |-> round + 1,
                     retained |-> \E j \in 1..Len(obligations) :
                                      obligations[j].source = e.path])
    /\ UNCHANGED policyVars
    /\ UNCHANGED <<seeded, dst0, opt, source_, reporting, unit, src, mount, pc, error, orig_paths, idx,
                   obligations, keep,
                   round, dropped, fixlog, io, writes, srcChanges>>

\* what an editor can turn the bytes of a source file into
Edits(d) ==
    (IF d # <<>> THEN {[d EXCEPT ![1] = 1 - @]} ELSE {})
    \cup (IF Len(d) < MaxLen THEN {Append(d, 0)} ELSE {})

\* between two rounds somebody modifies a regular file of the source that is still
\* to be verified
SourceChange ==
    /\ pc = "loop"
    /\ obligations # <<>>
    /\ srcChanges < MaxSrcChange
    /\ \E j \in 1..Len(obligations) :
         LET p == obligations[j].source IN
         /\ src[p].kind = "Regular"
         /\ \E d \in Edits(src[p].data) : src' = [src EXCEPT ![p].data = d]
    /\ srcChanges' = srcChanges + 1
    /\ UNCHANGED policyVars
    /\ UNCHANGED <<seeded, dst0, opt, source_, reporting, unit, dst, mount, pc, error, orig_paths, idx, obligations, keep,
                   round, dropped, fixlog, io, writes, corrupted>>

Program ==
    \/ Canonicalize
    \/ PermissionCheck
    \/ Enumerate
    \/ FirstCopyStep
    \/ DropCache
    \/ FixStep
    \/ RoundEnd
    \/ Finish

Next ==
    \/ Program
    \/ Corrupt
    \/ SourceChange

Spec == Init /\ [][Next]_vars

\* main() is sequential code: it takes its next step whenever it has one
FairSpec == Spec /\ WF_vars(Program)

(* ------------------- the helpers, each called alone -------------------- *)

\* the longest number given to leftpad, and the deepest path given to change_prefixes
MaxDigits == 4
MaxDepth == 2

Digits == {"0", "1", "9"}

RECURSIVE SeqsUpTo(_, _)
SeqsUpTo(S, n) ==
    IF n = 0 THEN {<<>>}
    ELSE SeqsUpTo(S, n - 1) \cup {Append(q, x) : q \in SeqsUpTo(S, n - 1), x \in S}

\* the busnum and devnum attributes tried on reset_usb_hub
UsbNumbers == {<<>>, <<"1">>, <<"1", "9">>, <<"0", "0", "1">>, <<"1", "0", "1", "9">>}

\* absolute paths as Path::components gives them: the root, then names
AbsolutePaths == {<<"/">> \o q : q \in SeqsUpTo({"a", "ab", "b"}, MaxDepth)}

UnitInit ==
    /\ opt = [mode |-> "Vm", once |-> FALSE, input |-> SourceRoot]
    /\ source_ = <<>>
    /\ src = Fs({}) /\ dst = Fs({}) /\ dst0 = Fs({})
    /\ mount = MountPoint
    /\ pc = "unit"
    /\ error = ""
    /\ orig_paths = <<>> /\ idx = 1 /\ obligations = <<>> /\ keep = <<>> /\ round = 0
    /\ seeded = <<>> /\ dropped = FALSE /\ fixlog = <<>> /\ io = <<>> /\ writes = 0
    /\ corrupted = <<>> /\ srcChanges = 0
    /\ reporting = FALSE /\ inner = Uninitialised /\ checks = <<>> /\ droplog = <<>>
    /\ unit = NoCall

\* a call returns: the harness makes one call in a run
UnitFrame ==
    /\ pc' = "returned"
    /\ UNCHANGED <<opt, source_, src, dst, mount, error, orig_paths, idx, obligations, keep, round,
                   seeded, dst0, dropped, fixlog, io, writes, corrupted, srcChanges,
                   reporting, inner, checks, droplog>>

\* fill_checksum(&mut slot, value)
CallFillChecksum ==
    /\ pc = "unit"
    /\ \E slot \in {None} \cup (0..(ChecksumCard - 1)), value \in 0..(ChecksumCard - 1) :
         unit' = [fn |-> "fill_checksum", slot |-> slot, value |-> value,
                  res |-> fill_checksum(slot, value)]
    /\ UnitFrame

\* change_prefixes(old_prefix, new_prefix)(path), in a build that asserts or not
CallChangePrefixes ==
    /\ pc = "unit"
    /\ \E asserting \in BOOLEAN, old \in AbsolutePaths, new \in AbsolutePaths,
          path \in AbsolutePaths :
         unit' = [fn |-> "change_prefixes", asserting |-> asserting, old_prefix |-> old,
                  new_prefix |-> new, path |-> path,
                  res |-> change_prefixes_in(asserting, old, new, path)]
    /\ UnitFrame

\* leftpad(s)
CallLeftpad ==
    /\ pc = "unit"
    /\ \E s \in SeqsUpTo(Digits, MaxDigits) :
         unit' = [fn |-> "leftpad", s |-> s, res |-> leftpad(s)]
    /\ UnitFrame

\* reset_usb_hub(dev, dryrun)
CallResetUsbHub ==
    /\ pc = "unit"
    /\ \E busnum \in UsbNumbers, devnum \in UsbNumbers, dryrun \in BOOLEAN :
         unit' = [fn |-> "reset_usb_hub", busnum |-> busnum, devnum |-> devnum,
                  dryrun |-> dryrun, res |-> reset_usb_hub(busnum, devnum, dryrun)]
    /\ UnitFrame

\* the destinations fix_path is called on alone: those of the runs, and one that is
\* neither file, directory, link nor block device
UnitDests(s) == DestTrees(s) \cup {{<<(<<"dst">>), OtherNode>>}}

\* fix_path(cache_manager, progress, orig, target, &mut checksum) on a source tree
\* and a destination, the slot empty or holding any checksum
CallFixPath ==
    /\ pc = "unit"
    /\ \E s \in SourceTrees : \E d \in UnitDests(s) :
       \E slot \in {None} \cup (0..(ChecksumCard - 1)) :
       \E it_orig \in ReadDirOrders(Fs(s), SourceRoot),
          it_target \in ReadDirOrders(Fs(d), <<"dst">>) :
         unit' = [fn |-> "fix_path", orig |-> Fs(s), before |-> Fs(d), slot |-> slot,
                  res |-> fix_path(Fs(s), Fs(d), SourceRoot, <<"dst">>, slot,
                                   it_orig, it_target)]
    /\ UnitFrame

\* the targets a source symlink can have when it is read, and read again
LinkTargets == Strings(1, 2)

\* what is at the destination when a symlink is copied or fixed alone
LinkDests == {{}, {<<(<<"dst">>), RegularNode(<<1>>)>>}}
             \cup {{<<(<<"dst">>), SymlinkNode(l)>>} : l \in LinkTargets}

\* first_copy's call on a source symlink, copy_path where the destination is
\* missing and fix_path (fix_symlink) with an empty slot where it exists, while
\* another process may give the link a new target between the kernel's two reads
CallOnSymlink ==
    /\ pc = "unit"
    /\ \E first \in LinkTargets, second \in LinkTargets, d \in LinkDests :
         LET orig == Fs({<<SourceRoot, SymlinkNode(first)>>})
             later == Fs({<<SourceRoot, SymlinkNode(second)>>})
         IN  unit' = [fn |-> IF d = {} THEN "copy_path" ELSE "fix_symlink",
                      first |-> first, second |-> second, before |-> Fs(d),
                      res |-> IF d = {}
                              THEN copy_path_at(orig, later, Fs(d), SourceRoot,
                                                <<"dst">>, <<>>)
                              ELSE fix_symlink_at(orig, later, Fs(d), SourceRoot,
                                                  <<"dst">>, None)]
    /\ UnitFrame

\* the names of the directories checksummed alone
DirNames == {"x", "y", "z"}

\* a directory at p with one empty file per name
DirWith(p, names) == Fs({<<p, DirectoryNode>>} \cup {<<Append(p, n), RegularNode(<<>>)>> : n \in names})

\* copy_directory (directory_checksum) and fix_directory with an empty slot on the
\* same source directory, each listing it in an order of its own, the destination
\* directory holding any names in any order
CallDirectoryChecksum ==
    /\ pc = "unit"
    /\ \E names \in SUBSET DirNames, have \in SUBSET DirNames :
       \E order \in Enumerations(names), it_orig \in Enumerations(names),
          it_target \in Enumerations(have) :
         LET orig == DirWith(SourceRoot, names)
             fs == DirWith(<<"dst">>, have)
         IN  unit' = [fn |-> "directory_checksum", names |-> names, have |-> have,
                      order |-> order, it_orig |-> it_orig,
                      copied |-> copy_directory(orig, fs, SourceRoot, <<"dst">>, order),
                      fixed |-> fix_directory(orig, fs, SourceRoot, <<"dst">>, None,
                                              it_orig, it_target)]
    /\ UnitFrame

\* the most mounted blocks and drives of a drive group
MaxBlocks == 2
MaxDrives == 2

\* the lookups at which the device can be back (0: never)
PollTimes == {0, 1, 2, PollLimit - 1, PollLimit}

\* what UsbResetCacheManager::drop_cache can meet; what comes after a failure is
\* left at one value, since the call never gets there
UsbEnvs ==
    {e \in [id : {"Fs", "BlockDevice"},
            mounted : 0..MaxBlocks, unmountFail : 0..MaxBlocks,
            drives : 1..MaxDrives, ejectFail : 0..MaxDrives,
            busnum : {<<"1">>}, devnum : {<<"1", "9">>, <<"1", "0", "1", "9">>},
            resetFail : {"none", "open", "ioctl"},
            appears : [at : PollTimes, several : BOOLEAN],
            mountFail : BOOLEAN, inPlace : BOOLEAN] :
        LET noReset == e.unmountFail # 0 \/ e.ejectFail # 0 \/ Len(e.devnum) > PadWidth
            noPoll == noReset \/ e.resetFail # "none"
            noMatch == noPoll \/ e.appears.at = 0 \/ e.appears.several
        IN  /\ e.unmountFail <= e.mounted
            /\ e.ejectFail <= e.drives
            /\ e.appears.at = 0 => ~e.appears.several
            /\ e.unmountFail # 0 => e.ejectFail = 0
            /\ noReset => e.resetFail = "none"
            /\ noPoll => e.appears = [at |-> 1, several |-> FALSE]
            /\ (noMatch \/ e.id = "BlockDevice") => ~e.mountFail
            /\ (noMatch \/ e.mountFail) => e.inPlace}

\* UsbResetCacheManager::drop_cache after permission_check, in every environment
CallUsbResetDropCache ==
    /\ pc = "unit"
    /\ \E env \in UsbEnvs :
         unit' = [fn |-> "usbreset_drop_cache", env |-> env,
                  res |-> usbreset_steps(TRUE, env)]
    /\ UnitFrame

\* UsbResetCacheManager::permission_check
CallUsbResetPermissionCheck ==
    /\ pc = "unit"
    /\ \E root \in BOOLEAN, ejectable \in BOOLEAN, openFails \in BOOLEAN,
          devnum \in {<<"1", "9">>, <<"1", "0", "1", "9">>} :
         unit' = [fn |-> "usbreset_permission_check", root |-> root,
                  ejectable |-> ejectable, openFails |-> openFails, devnum |-> devnum,
                  res |-> usbreset_permission_check(root, ejectable, <<"1">>, devnum,
                                                    openFails)]
    /\ UnitFrame

\* the deepest chain of ancestors a path handed to global_drop_cache has
MaxAncestors == 3

\* the kinds of a path and of its ancestors up to the root: the path is anything
\* or missing, what is above it is a directory or a link to one, the root is a
\* directory
AncestorKinds ==
    {k \in UNION {[1..n -> Kinds \cup {"absent"}] : n \in 2..MaxAncestors} :
        /\ k[Len(k)] = "Directory"
        /\ \A i \in 2..Len(k) : k[i] \in {"Directory", "Symlink"}}

\* the step of global_drop_cache that fails, if any
VmFails == {"none", "open", "sync", "create", "write"}

\* PageCacheManager: permission_check, then drop_cache on one path
CallVmDropCache ==
    /\ pc = "unit"
    /\ \E kinds \in AncestorKinds, fail \in VmFails, noRoot \in BOOLEAN, root \in BOOLEAN :
         unit' = [fn |-> "vm_drop_cache", kinds |-> kinds, fail |-> fail,
                  noRoot |-> noRoot, root |-> root,
                  check |-> vm_permission_check(root, noRoot),
                  res |-> global_drop_cache(kinds, fail, noRoot)]
    /\ UnitFrame

\* what the O_DIRECT open of the probe returns
Opens == {"ok", "EINVAL", "EACCES"}

\* DirectIOCacheManager::permission_check on DEST in a destination file system
CallDirectIOPermissionCheck ==
    /\ pc = "unit"
    /\ \E s \in SourceTrees : \E d \in UnitDests(s) \cup {{}} :
       \E opens \in Opens, leftover \in BOOLEAN, tmpFails \in BOOLEAN :
         LET fs == Fs(d)
             path == DstKey(TargetRoot)
         IN  unit' = [fn |-> "directio_permission_check", before |-> fs, path |-> path,
                      opens |-> opens, leftover |-> leftover, tmpFails |-> tmpFails,
                      res |-> directio_probe(fs, path, opens, leftover, tmpFails)]
    /\ UnitFrame

\* the block loop of fix_file on a source and a target that is a regular file or a
\* block device, with and without short reads
CallFixFileLoop ==
    /\ pc = "unit"
    /\ \E S \in Strings(0, MaxLen), D \in Strings(0, MaxLen), isDev \in BOOLEAN,
          short \in [orig : BOOLEAN, target : BOOLEAN] :
         unit' = [fn |-> "fix_file_loop", S |-> S, D |-> D, isDev |-> isDev,
                  short |-> short,
                  res |-> FixCursors(S, D, 0, 0, 0, FALSE, isDev, short,
                                     [starts |-> <<>>, ops |-> <<>>])]
    /\ UnitFrame

\* fix_directory on an existing destination directory: the source directory holds
\* `want` and is listed in the order it_orig, the destination holds `have` and is
\* listed in the order it_target
CallFixDirectory ==
    /\ pc = "unit"
    /\ \E want \in SUBSET DirNames, have \in SUBSET DirNames :
       \E it_orig \in Enumerations(want), it_target \in Enumerations(have) :
         LET orig == DirWith(SourceRoot, want)
             fs == DirWith(<<"dst">>, have)
         IN  unit' = [fn |-> "fix_directory", want |-> want, have |-> have,
                      it_orig |-> it_orig, it_target |-> it_target,
                      walk |-> Lockstep(it_orig, it_target, 1,
                                        [res |-> HasherInto(HasherDefault),
                                         orig_names |-> {}, target_names |-> {}]),
                      res |-> fix_directory(orig, fs, SourceRoot, <<"dst">>, None,
                                            it_orig, it_target)]
    /\ UnitFrame

\* what a destination symlink is made to point to: a file, a directory with a
\* member, or nothing
Referents ==
    {{}}
    \cup {{<<(<<"dst", "y">>), RegularNode(d)>>} : d \in {<<>>, <<1>>, <<1, 0, 1>>}}
    \cup {{<<(<<"dst", "y">>), DirectoryNode>>, <<(<<"dst", "y", "x">>), GrandLeaf>>}}

\* fix_path on the entry x of a source directory, a regular file or a directory,
\* whose destination is a symlink to its neighbour y
CallFixOverLink ==
    /\ pc = "unit"
    /\ \E node \in {RegularNode(d) : d \in SourceData} \cup {DirectoryNode},
          ref \in Referents,
          slot \in {None} \cup (0..(ChecksumCard - 1)) :
         LET x == Append(SourceRoot, "x")
             link == <<"dst", "x">>
             orig == Fs({<<SourceRoot, DirectoryNode>>, <<x, node>>})
             fs == Fs({<<(<<"dst">>), DirectoryNode>>,
                       <<link, SymlinkNode(NameBytes("y"))>>} \cup ref)
         IN  unit' = [fn |-> "fix_over_link", orig |-> orig, source |-> x,
                      before |-> fs, link |-> link, slot |-> slot,
                      res |-> fix_path(orig, fs, x, link, slot, <<>>, <<>>)]
    /\ UnitFrame

UnitNext ==
    \/ CallFixPath
    \/ CallFixOverLink
    \/ CallFixDirectory
    \/ CallFixFileLoop
    \/ CallDirectIOPermissionCheck
    \/ CallVmDropCache
    \/ CallUsbResetDropCache
    \/ CallUsbResetPermissionCheck
    \/ CallDirectoryChecksum
    \/ CallOnSymlink
    \/ CallFillChecksum
    \/ CallChangePrefixes
    \/ CallLeftpad
    \/ CallResetUsbHub

UnitSpec == UnitInit /\ [][UnitNext]_vars

(* ------------------------------- claims -------------------------------- *)


Entries == {orig_paths[k].path : k \in 1..Len(orig_paths)}

\* the fix_path calls made so far on source path s
FixesOf(s) == {i \in 1..Len(fixlog) : fixlog[i].source = s}

LastFixOf(s) == fixlog[CHOOSE i \in FixesOf(s) : \A j \in FixesOf(s) : j <= i]

NoDevice(fs) == \A p \in DOMAIN fs : fs[p].kind # "Device"

\* C1: when a run exits successfully, the destination of every source entry has
\* the kind and the content of the source (file bytes, child names, link target).
\* Stated for runs the storage and the source did not disturb and without block
\* devices, where the claim allows no exception.
C1_DestinationEqualsSource ==
    (pc = "done" /\ corrupted = <<>> /\ srcChanges = 0 /\ NoDevice(src) /\ NoDevice(dst0))
        => \A s \in Entries : Matches(s, TargetOf(s))

\* C2: a run exits successfully only after every obligation of the initial pass was
\* fixed in a round that began with drop_cache, its slot pre-filled with the checksum
\* recorded by the initial pass, and the last fix of each returned Ok(false).
C2_ExitOnlyAfterCleanVerification ==
    pc = "done" =>
        /\ Len(seeded) = Len(orig_paths)
        /\ \A k \in 1..Len(seeded) :
             /\ \E i \in FixesOf(seeded[k].source) :
                  /\ fixlog[i].round >= 1
                  /\ fixlog[i].dropped
                  /\ fixlog[i].prefilled = seeded[k].checksum
                  /\ fixlog[i].prefilled # None
             /\ \A i \in FixesOf(seeded[k].source) :
                  fixlog[i].round >= 1 =>
                      fixlog[i].dropped /\ fixlog[i].prefilled = seeded[k].checksum
             /\ LastFixOf(seeded[k].source).round >= 1
             /\ LastFixOf(seeded[k].source).ok
             /\ ~LastFixOf(seeded[k].source).changed

\* C2 witness: a successful exit of a run in which a verification round had to
\* repair a copy, so that a later round verified it again
C2_Witness ==
    /\ pc = "done"
    /\ Len(seeded) >= 2
    /\ \E i \in 1..Len(fixlog) : fixlog[i].round >= 1 /\ fixlog[i].changed

\* the fixes of corruption event ev in the round that follows it
FixesAfter(ev) == {i \in FixesOf(ev.source) : fixlog[i].round = ev.round}

\* C3 as claimed: every corruption of a known-good destination between two rounds is
\* detected on the next round: when the run has ended successfully, the fix of that
\* entry in that round exists and returned true.
C3_EveryCorruptionDetected ==
    pc = "done" =>
        \A c \in 1..Len(corrupted) :
            \E i \in FixesAfter(corrupted[c]) : fixlog[i].ok /\ fixlog[i].changed

\* C3, amended: a corruption of a destination whose obligation is still retained is
\* detected on the next round (the fix of that entry returns true) and repaired, and
\* a later round verifies the entry again before the run succeeds; every round after
\* the first is owed to a fault, and after a corruption a run without --once fails only when dropping the cache
\* fails, while --once alone ends a run with files left to fix.
C3_RetainedCorruptionRepaired ==
    /\ \A c \in 1..Len(corrupted) :
         LET ev == corrupted[c]
         IN  (ev.retained /\ srcChanges = 0) =>
               /\ \A i \in FixesAfter(ev) :
                    LET e == fixlog[i]
                        S == e.reference.data
                    IN  /\ e.ok
                        /\ e.changed
                        /\ SubSeq(e.fsAfter[e.key].data, 1, Len(S)) = S
                        /\ SubSeq(e.fsBefore[e.key].data, 1, Len(S)) # S
               /\ pc = "done" =>
                    /\ FixesAfter(ev) # {}
                    /\ LastFixOf(ev.source).round > ev.round
                    /\ ~LastFixOf(ev.source).changed
    /\ round <= 1 + Len(corrupted) + srcChanges
    /\ (pc = "failed" /\ corrupted # <<>> /\ srcChanges = 0 /\ ~opt.once)
          => error = "Dropping cache"
    /\ (pc = "failed" /\ error = "Still files to fix") => opt.once

\* C3 witness: a run ended successfully after a retained copy was corrupted, the
\* next round repaired it, and the round after found it good
C3_Witness ==
    /\ pc = "done"
    /\ \E c \in 1..Len(corrupted) :
         /\ corrupted[c].retained
         /\ \E i \in FixesAfter(corrupted[c]) : fixlog[i].changed
         /\ LastFixOf(corrupted[c].source).round = corrupted[c].round + 1

\* the checksum of a source node as the kernel defines it: the CRC of a file's
\* bytes or of a link's target, the xor of the CRCs of a directory's names
RECURSIVE XorSet(_)
XorSet(names) ==
    IF names = {} THEN 0
    ELSE LET n == CHOOSE n \in names : TRUE
         IN  Xor(Crc(NameBytes(n)), XorSet(names \ {n}))

SourceChecksum(node, names) ==
    IF node.kind = "Directory" THEN XorSet(names) ELSE Crc(node.data)

\* errors of the destination that end fix_path before the checksum is looked at
IoErrors == {"ENOENT", "ENOSPC", "EISDIR", "ENXIO"}

\* C4: when the checksum computed from the source in a verification round differs
\* from the recorded one, the fix fails with the bad-checksum error and the run ends
\* with that error: it is the last fix, no round follows, success is never reported.
C4_BadChecksumIsFatal ==
    \A i \in 1..Len(fixlog) :
        LET e == fixlog[i]
        IN  (/\ e.round >= 1
             /\ SourceChecksum(e.reference, e.want) # e.prefilled
             /\ e.err \notin IoErrors)
            => /\ ~e.ok
               /\ e.err = "wrong checksum"
               /\ i = Len(fixlog)
               /\ pc = "failed"
               /\ error = "wrong checksum"
               /\ round = e.round

\* C4 witness: a verification round met a source whose checksum had changed
C4_Witness ==
    /\ pc = "failed"
    /\ fixlog # <<>>
    /\ fixlog[Len(fixlog)].round >= 1
    /\ fixlog[Len(fixlog)].err = "wrong checksum"
    /\ Len(obligations) > 1

\* the calls of a fix that modify the destination
WriteCalls(e) == {j \in 1..Len(e.io) : e.io[j].op \in WriteOps}

\* C5: a successful fix_path returns true if and only if it modified the
\* destination (wrote, truncated, removed, recopied, relinked).
C5_ChangedIffModified ==
    \A i \in 1..Len(fixlog) :
        fixlog[i].ok =>
            /\ fixlog[i].changed = (fixlog[i].fsAfter # fixlog[i].fsBefore)
            /\ fixlog[i].changed = (WriteCalls(fixlog[i]) # {})

\* C5 witness: in one run a directory fix that removed a member returned true and
\* a fix of a file or symlink that found nothing to repair returned false
C5_Witness ==
    \E i, j \in 1..Len(fixlog) :
        /\ fixlog[i].ok /\ fixlog[i].reference.kind = "Directory" /\ fixlog[i].changed
        /\ fixlog[i].key \in DOMAIN fixlog[i].fsBefore
        /\ fixlog[i].fsBefore[fixlog[i].key].kind = "Directory"
        /\ fixlog[j].ok /\ fixlog[j].reference.kind \in {"Regular", "Symlink"}
        /\ ~fixlog[j].changed

\* the fixes in which fix_file met a destination of kind k
FileFixesOn(k) ==
    {i \in 1..Len(fixlog) :
        /\ fixlog[i].reference.kind \in {"Regular", "Device"}
        /\ fixlog[i].key \in DOMAIN fixlog[i].fsBefore
        /\ fixlog[i].fsBefore[fixlog[i].key].kind = k}

OpsOf(e) == [j \in 1..Len(e.io) |-> e.io[j].op]

Count(ops, op) == Cardinality({j \in 1..Len(ops) : ops[j] = op})

\* the blocks of S that D does not hold at the same offset (differing or missing)
DiffBlocks(S, D) ==
    {b \in 0..(Len(S) \div BlockSize) :
        /\ b * BlockSize < Len(S)
        /\ SubSeq(S, b * BlockSize + 1, Min((b + 1) * BlockSize, Len(S)))
             # SubSeq(D, b * BlockSize + 1, Min(Min((b + 1) * BlockSize, Len(S)), Len(D)))}

\* C6: after fix_file succeeds on a regular destination, the destination holds
\* exactly the source bytes read in that pass: one write per block that differed or
\* was missing, and one truncation iff the destination was longer.
C6_RegularFileRepaired ==
    \A i \in FileFixesOn("Regular") :
        LET e == fixlog[i]
            S == e.reference.data
            D == e.fsBefore[e.key].data
        IN  e.ok =>
              /\ e.fsAfter[e.key] = RegularNode(S)
              /\ Count(OpsOf(e), "write") = Cardinality(DiffBlocks(S, D))
              /\ Count(OpsOf(e), "set_len") = (IF Len(D) > Len(S) THEN 1 ELSE 0)

\* C6 witness: a destination longer than a source whose length is no multiple of
\* the block size was rewritten in its first block and truncated
C6_Witness ==
    \E i \in FileFixesOn("Regular") :
        LET e == fixlog[i]
        IN  /\ e.ok
            /\ Len(e.reference.data) % BlockSize # 0
            /\ Len(e.fsBefore[e.key].data) > Len(e.reference.data)
            /\ 0 \in DiffBlocks(e.reference.data, e.fsBefore[e.key].data)

\* C7: fix_file never truncates a block device: it keeps its size, and after a
\* successful fix, and after the run, its first len(source) bytes are the source's and
\* the bytes beyond are as they were.
C7_DeviceNeverTruncated ==
    /\ \A i \in FileFixesOn("Device") :
         LET e == fixlog[i]
             S == e.reference.data
             D == e.fsBefore[e.key].data
             A == e.fsAfter[e.key].data
         IN  /\ Count(OpsOf(e), "set_len") = 0
             /\ e.fsAfter[e.key].kind = "Device"
             /\ Len(A) = Len(D)
             /\ e.ok => /\ SubSeq(A, 1, Len(S)) = S
                        /\ SubSeq(A, Len(S) + 1, Len(A)) = SubSeq(D, Len(S) + 1, Len(D))
    /\ (/\ pc = "done"
        /\ srcChanges = 0
        /\ <<"dst">> \in DOMAIN dst0
        /\ dst0[<<"dst">>].kind = "Device"
        /\ src[SourceRoot].kind \in {"Regular", "Device"})
       => LET S == src[SourceRoot].data
              D == dst0[<<"dst">>].data
              A == dst[<<"dst">>].data
          IN  /\ dst[<<"dst">>].kind = "Device"
              /\ Len(A) = Len(D)
              /\ SubSeq(A, 1, Len(S)) = S
              /\ SubSeq(A, Len(S) + 1, Len(A)) = SubSeq(D, Len(S) + 1, Len(D))

\* C7 witness: a run ended after writing a shorter source over a device that held
\* other bytes
C7_Witness ==
    /\ pc = "done"
    /\ \E i \in FileFixesOn("Device") :
         /\ fixlog[i].ok /\ fixlog[i].changed
         /\ Len(fixlog[i].reference.data) > 0
         /\ Len(fixlog[i].fsBefore[fixlog[i].key].data) > Len(fixlog[i].reference.data)

\* the fixes in which fix_directory met a destination that was a directory
DirFixesOnDir ==
    {i \in 1..Len(fixlog) :
        /\ fixlog[i].reference.kind = "Directory"
        /\ fixlog[i].key \in DOMAIN fixlog[i].fsBefore
        /\ fixlog[i].fsBefore[fixlog[i].key].kind = "Directory"}

\* C8: on a destination that is a directory, fix_directory removes exactly the
\* members whose names the source directory lacks, with all they contain, keeps
\* everything else and creates nothing; after the run every destination directory
\* has exactly the names of its source.
C8_DirectoryExtrasRemoved ==
    /\ \A i \in DirFixesOnDir :
         LET e == fixlog[i]
             extra == ChildNames(e.fsBefore, e.key) \ e.want
             gone(r) == \E n \in extra : IsPrefix(Append(e.key, n), r)
         IN  e.ok =>
               e.fsAfter = [q \in {r \in DOMAIN e.fsBefore : ~gone(r)} |-> e.fsBefore[q]]
    /\ pc = "done" =>
         \A s \in Entries :
            src[s].kind = "Directory" =>
               /\ exists(dst, TargetOf(s))
               /\ dst[TargetOf(s)].kind = "Directory"
               /\ ChildNames(dst, TargetOf(s)) = ChildNames(src, s)

\* C8 witness: a run ended in which an extra member that was a directory with a
\* file in it was removed, and a member the source has was kept
C8_Witness ==
    /\ pc = "done"
    /\ \E i \in DirFixesOnDir :
         LET e == fixlog[i]
         IN  /\ e.ok
             /\ "x" \notin e.want
             /\ "y" \in e.want
             /\ Append(Append(e.key, "x"), "x") \in DOMAIN e.fsBefore
             /\ Append(e.key, "y") \in DOMAIN e.fsBefore
             /\ Append(e.key, "y") \in DOMAIN e.fsAfter

\* C9: fix of a source symlink with target L leaves the destination a symlink with
\* target L, whatever the destination was before.
C9_SymlinkRoundTrip ==
    \A i \in 1..Len(fixlog) :
        LET e == fixlog[i]
        IN  (e.reference.kind = "Symlink" /\ e.ok)
                => /\ e.key \in DOMAIN e.fsAfter
                   /\ e.fsAfter[e.key] = SymlinkNode(e.reference.data)

\* what main resolves the SOURCE argument to (the argument itself when it cannot)
Resolved ==
    LET c == canonicalize(src, opt.input, TRUE)
    IN  IF c.ok THEN c.path ELSE opt.input

\* the paths of the source tree, the root included
SourceTree == {p \in DOMAIN src : IsPrefix(Resolved, p)}

\* the destination already is the copy of the source: the same nodes at the same
\* places and nothing else
AlreadyCorrect ==
    /\ DOMAIN dst0 = {TargetOf(p) : p \in SourceTree}
    /\ \A p \in SourceTree : dst0[TargetOf(p)] = src[p]

Undisturbed == corrupted = <<>> /\ srcChanges = 0

\* C10 as claimed: a run on an already-correct destination performs no write-side
\* operation at all, every fix returns false, and the run ends after round 1.
C10_NoWriteAtAll ==
    (AlreadyCorrect /\ Undisturbed) =>
        /\ writes = 0
        /\ \A i \in 1..Len(fixlog) : ~fixlog[i].changed
        /\ pc = "done" => round = 1

\* the modifying calls of DirectIOCacheManager::permission_check on a destination
\* that is a directory: create the temporary directory and the test file, remove them
ProbeWrites ==
    IF /\ opt.mode = "DirectIO"
       /\ exists(dst0, <<"dst">>)
       /\ dst0[<<"dst">>].kind = "Directory"
       /\ checks # <<>>
    THEN 3 ELSE 0

\* C10, amended: on an already-correct destination no file is modified, every fix
\* returns false in the initial pass and in round 1, and the run ends after round 1;
\* the only write-side operations are those of the directio probe in a destination
\* directory, which leave nothing behind.
C10_IdempotentButForProbe ==
    (AlreadyCorrect /\ Undisturbed) =>
        /\ dst = dst0
        /\ writes = ProbeWrites
        /\ \A i \in 1..Len(fixlog) :
             fixlog[i].ok /\ ~fixlog[i].changed /\ WriteCalls(fixlog[i]) = {}
        /\ pc = "done" => round = 1 /\ Len(fixlog) = 2 * Len(orig_paths)

\* C10 witness: a run on an already-correct directory tree ended
C10_Witness ==
    /\ AlreadyCorrect /\ Undisturbed
    /\ pc = "done"
    /\ Len(orig_paths) >= 3
    /\ opt.mode = "DirectIO"

\* the source is a regular file and the destination a regular file of the same
\* length with other bytes
SameLengthOtherBytes ==
    /\ src[SourceRoot].kind = "Regular"
    /\ <<"dst">> \in DOMAIN dst0
    /\ dst0[<<"dst">>].kind = "Regular"
    /\ Len(dst0[<<"dst">>].data) = Len(src[SourceRoot].data)
    /\ dst0[<<"dst">>].data # src[SourceRoot].data

RoundFixes(r) == {i \in 1..Len(fixlog) : fixlog[i].round = r}

\* C11 as claimed: on a regular destination of the same length with other bytes the
\* run ends with the destination equal to the source, some fix returns true in
\* round 1 and none in round 2.
C11_TrueInRoundOne ==
    (pc = "done" /\ Undisturbed /\ SameLengthOtherBytes) =>
        /\ dst[<<"dst">>] = src[SourceRoot]
        /\ \E i \in RoundFixes(1) : fixlog[i].changed
        /\ \A i \in RoundFixes(2) : ~fixlog[i].changed

\* C11, amended: the fix that returns true is the one first_copy makes on the
\* existing destination while seeding; it leaves the destination equal to the
\* source, every fix of round 1 returns false, and the run ends after round 1
\* without a round 2.
C11_RepairedWhileSeeding ==
    (Undisturbed /\ SameLengthOtherBytes) =>
        /\ \A i \in RoundFixes(0) :
             /\ fixlog[i].ok /\ fixlog[i].changed
             /\ fixlog[i].fsAfter[<<"dst">>] = src[SourceRoot]
        /\ \A i \in 1..Len(fixlog) :
             fixlog[i].round >= 1 => fixlog[i].ok /\ ~fixlog[i].changed
        /\ round <= 1
        /\ pc \in {"loop", "fix", "done"} => dst[<<"dst">>] = src[SourceRoot]
        /\ pc = "done" => Cardinality(RoundFixes(0)) = 1 /\ Cardinality(RoundFixes(1)) = 1

\* C11 witness: such a run on a file of more than one block ended successfully
C11_Witness ==
    /\ pc = "done"
    /\ Undisturbed /\ SameLengthOtherBytes
    /\ Len(src[SourceRoot].data) > BlockSize

\* round r ended in retain: every fix of the round returned and the program has
\* left the round
RoundOver(r) ==
    /\ round = r
    /\ pc # "fix"
    /\ RoundFixes(r) # {}
    /\ \A i \in RoundFixes(r) : fixlog[i].ok

\* C12: with --once exactly one verification round runs: when a fix of it returned
\* true the run fails with "Still files to fix" and neither drop_cache nor fix is
\* called again, otherwise it succeeds.  Without --once a round that retains
\* obligations leaves the loop with work to do, each later round follows such a
\* round, and "Still files to fix" is never reported.
C12_OnceBailsOut ==
    /\ opt.once =>
         /\ round <= 1
         /\ error = "Dropping cache" => round = 0
         /\ RoundOver(1) =>
              IF \E i \in RoundFixes(1) : fixlog[i].changed
              THEN /\ pc = "failed" /\ error = "Still files to fix"
                   /\ Len(obligations) =
                        Cardinality({i \in RoundFixes(1) : fixlog[i].changed})
              ELSE pc \in {"loop", "done"} /\ obligations = <<>> /\ error = ""
         /\ pc = "done" => RoundOver(1)
         /\ error = "Still files to fix" => pc = "failed" /\ RoundOver(1)
    /\ ~opt.once =>
         /\ error # "Still files to fix"
         /\ \A r \in 1..(round - 1) : \E i \in RoundFixes(r) : fixlog[i].changed
         /\ pc = "done" => \A i \in RoundFixes(round) : ~fixlog[i].changed
         /\ (round >= 1 /\ RoundOver(round)
               /\ \E i \in RoundFixes(round) : fixlog[i].changed)
               => \/ pc = "loop" /\ obligations # <<>>
                  \/ pc = "failed" /\ error = "Dropping cache"

\* C12 witness: a run with --once ended with files left to fix after its one round
C12_Witness ==
    /\ opt.once
    /\ pc = "failed"
    /\ error = "Still files to fix"
    /\ Len(seeded) > Len(obligations)

\* the calls that read the state of the destination
ReadOps == {"open", "stat", "read_dir", "read_link"}

\* C13: the verification kernel reads the destination only through the policy's
\* open_no_cache: file and device contents, directory listings, symlink targets.
C13_ReadsOnlyThroughPolicy ==
    \A i \in 1..Len(fixlog) :
        \A j \in 1..Len(fixlog[i].io) :
            fixlog[i].io[j].op \in ReadOps => fixlog[i].io[j].via = "policy"

\* C14: when drop_cache returns a Replacement {before, after}, the destination of
\* every retained obligation has its prefix `before` replaced by `after`, its source,
\* checksum and size are untouched, and every fix_path call of that round is made
\* on the rewritten destination.
C14_ReplacementRewritesObligations ==
    \A k \in 1..Len(droplog) :
        LET d == droplog[k]
            before == d.replacement.before
            after == d.replacement.after
        IN  (d.ok /\ d.replacement # NoReplacement) =>
              /\ Len(d.after) = Len(d.before)
              /\ \A j \in 1..Len(d.before) :
                   /\ IsPrefix(before, d.before[j].dest)
                   /\ d.after[j].dest =
                        after \o SubSeq(d.before[j].dest, Len(before) + 1,
                                        Len(d.before[j].dest))
                   /\ d.after[j].source = d.before[j].source
                   /\ d.after[j].checksum = d.before[j].checksum
                   /\ d.after[j].size = d.before[j].size
              /\ \A i \in RoundFixes(d.round) :
                   /\ \E j \in 1..Len(d.after) :
                        /\ fixlog[i].source = d.after[j].source
                        /\ fixlog[i].dest = d.after[j].dest
                        /\ fixlog[i].prefilled = d.after[j].checksum
                   /\ IsPrefix(after, fixlog[i].dest)
                   /\ ~IsPrefix(before, fixlog[i].dest)
                   /\ fixlog[i].key =
                        SubSeq(fixlog[i].dest, Len(d.to) + 1, Len(fixlog[i].dest))

\* C14 witness: a run ended successfully after a drop_cache moved the obligations of
\* a directory and its members to another place
C14_Witness ==
    /\ pc = "done"
    /\ \E k \in 1..Len(droplog) :
         /\ droplog[k].ok
         /\ droplog[k].replacement # NoReplacement
         /\ Len(droplog[k].before) >= 2
         /\ RoundFixes(droplog[k].round) # {}

\* C15: when the storage is back at another place after the remount (umount) or
\* the reset (usbreset), the drop_cache of cache/umount.rs and cache/usbreset.rs
\* succeeds, returns the Replacement {before: old place, after: new place}, and runs
\* its permission_check again.
C15_MovedStorageReported ==
    \A k \in 1..Len(droplog) :
        LET d == droplog[k]
        IN  (~reporting /\ d.mode \in {"Umount", "UsbReset"} /\ d.from # d.to) =>
              /\ d.ok
              /\ d.replacement = Replacement(d.from, d.to)
              /\ d.rechecked

\* main has not called permission_check yet: it is resolving its arguments, is
\* about to call it, or has ended on an argument it could not resolve
BeforeCheck ==
    \/ pc \in {"canonicalize", "permission_check"}
    \/ pc = "failed" /\ source_ = <<>>

\* C16: main calls permission_check once, before anything else it does to the
\* source or the destination (only its arguments are resolved earlier): until it has
\* succeeded no obligation exists and nothing was dropped, fixed or written; when it
\* fails the run ends there.  A drop_cache of the umount or usbreset policy that is
\* not Ready fails and unmounts, ejects and resets nothing, and main never makes
\* such a call.
C16_PermissionCheckFirst ==
    /\ BeforeCheck =>
         /\ checks = <<>> /\ inner = Uninitialised
         /\ orig_paths = <<>> /\ obligations = <<>> /\ seeded = <<>>
         /\ fixlog = <<>> /\ droplog = <<>> /\ writes = 0 /\ dst = dst0
    /\ ~BeforeCheck =>
         /\ checks # <<>> /\ checks[1].by = "main"
         /\ \A k \in 2..Len(checks) : checks[k].by = "policy"
    /\ (checks # <<>> /\ ~checks[1].ok) =>
         /\ pc = "failed" /\ Len(checks) = 1 /\ inner = Uninitialised
         /\ orig_paths = <<>> /\ obligations = <<>> /\ seeded = <<>>
         /\ fixlog = <<>> /\ droplog = <<>> /\ dst = dst0
    /\ \A k \in 1..Len(droplog) :
         droplog[k].mode \in {"Umount", "UsbReset"} => droplog[k].ready
    /\ \A mode \in {"Umount", "UsbReset"}, at \in Locations, back \in Locations,
          fails \in BOOLEAN :
         LET r == drop_cache(mode, FALSE, Uninitialised, at, TargetRoot, back, fails, TRUE)
         IN  ~r.ok /\ r.err = NotReady /\ r.ops = <<>> /\ r.at = at

\* C16 witness: a run on the umount policy ended after its drop_cache, made Ready
\* by the one permission_check, unmounted and remounted
C16_Witness ==
    /\ pc = "done"
    /\ opt.mode = "Umount"
    /\ Len(checks) = 1
    /\ droplog # <<>>
    /\ droplog[1].ops = <<"unmount", "mount">>

\* C17: fill_checksum on an empty slot stores the value and succeeds; on a slot that
\* holds the value it succeeds and the slot still holds it; on a slot that holds
\* another value it fails and the slot keeps that other value.
C17_FillChecksum ==
    unit.fn = "fill_checksum" =>
        /\ unit.slot = None => unit.res.ok /\ unit.res.slot = unit.value
        /\ unit.slot = unit.value => unit.res.ok /\ unit.res.slot = unit.value
        /\ (unit.slot # None /\ unit.slot # unit.value)
              => ~unit.res.ok /\ unit.res.slot = unit.slot

\* C17 witness: fill_checksum has refused a value on a slot holding another one
C17_Witness ==
    /\ unit.fn = "fill_checksum"
    /\ unit.slot # None /\ unit.slot # unit.value
    /\ ~unit.res.ok

\* the components of a path
ComponentsOf(path) == {path[i] : i \in 1..Len(path)}

\* C18: for a path whose leading components are old_prefix, change_prefixes gives
\* new_prefix followed by the remaining components of the path, in every build: the
\* path old_prefix itself gives new_prefix, and with old_prefix "/" the path "/a"
\* gives new_prefix/a; the result is made of whole components of its arguments.
C18_PrefixRewritten ==
    (unit.fn = "change_prefixes" /\ IsPrefix(unit.old_prefix, unit.path)) =>
        /\ ~unit.res.panic
        /\ unit.res.path = unit.new_prefix
              \o SubSeq(unit.path, Len(unit.old_prefix) + 1, Len(unit.path))
        /\ unit.path = unit.old_prefix => unit.res.path = unit.new_prefix
        /\ (unit.old_prefix = <<"/">> /\ unit.path = <<"/", "a">>)
              => unit.res.path = Append(unit.new_prefix, "a")
        /\ ComponentsOf(unit.res.path)
              \subseteq ComponentsOf(unit.new_prefix) \cup ComponentsOf(unit.path)

\* C18 witness: the prefix /a of /a/ab was replaced by /b/a, where /a is also the
\* beginning of the bytes of the component that stays
C18_Witness ==
    /\ unit.fn = "change_prefixes"
    /\ unit.old_prefix = <<"/", "a">>
    /\ unit.path = <<"/", "a", "ab">>
    /\ unit.new_prefix = <<"/", "b", "a">>
    /\ unit.res.path = <<"/", "b", "a", "ab">>

\* C19 as claimed: change_prefixes on a path that does not start with old_prefix
\* panics instead of returning a path.
C19_WrongPrefixPanics ==
    (unit.fn = "change_prefixes" /\ ~IsPrefix(unit.old_prefix, unit.path)) =>
        unit.res.panic

\* C19, amended: on a path that does not start with old_prefix the closure panics
\* in a build with cfg(test) or cfg(debug); in any other build it returns new_prefix
\* followed by the components of the path after its first len(old_prefix) ones.
C19_WrongPrefixPanicsInTestBuild ==
    (unit.fn = "change_prefixes" /\ ~IsPrefix(unit.old_prefix, unit.path)) =>
        IF unit.asserting
        THEN unit.res.panic
        ELSE /\ ~unit.res.panic
             /\ unit.res.path = unit.new_prefix
                   \o SubSeq(unit.path, Len(unit.old_prefix) + 1, Len(unit.path))

\* C19 witness: the test of the repository, /a with old prefix /b, in a test build
C19_Witness ==
    /\ unit.fn = "change_prefixes"
    /\ unit.asserting
    /\ unit.path = <<"/", "a">>
    /\ unit.old_prefix = <<"/", "b">>
    /\ unit.res.panic

\* C20: leftpad of at most 3 bytes gives 3 bytes that end with the input and are '0'
\* before it; of more than 3 bytes it fails; reset_usb_hub opens
\* /dev/bus/usb/BBB/DDD, BBB and DDD the padded busnum and devnum.
C20_Leftpad ==
    /\ unit.fn = "leftpad" =>
         IF Len(unit.s) <= 3
         THEN /\ unit.res.ok
              /\ Len(unit.res.value) = 3
              /\ SubSeq(unit.res.value, 3 - Len(unit.s) + 1, 3) = unit.s
              /\ \A i \in 1..(3 - Len(unit.s)) : unit.res.value[i] = "0"
         ELSE ~unit.res.ok
    /\ unit.fn = "reset_usb_hub" =>
         IF Len(unit.busnum) <= 3 /\ Len(unit.devnum) <= 3
         THEN /\ unit.res.ok
              /\ Len(unit.res.buspath) = 6
              /\ SubSeq(unit.res.buspath, 1, 4) = <<"/", "dev", "bus", "usb">>
              /\ \A k \in {5, 6} :
                   LET n == IF k = 5 THEN unit.busnum ELSE unit.devnum
                       padded == unit.res.buspath[k]
                   IN  /\ Len(padded) = 3
                       /\ SubSeq(padded, 3 - Len(n) + 1, 3) = n
                       /\ \A i \in 1..(3 - Len(n)) : padded[i] = "0"
         ELSE ~unit.res.ok

\* C20 witness: leftpad has padded a number of two digits
C20_Witness ==
    /\ unit.fn = "leftpad"
    /\ unit.s = <<"1", "9">>
    /\ unit.res.value = <<"0", "1", "9">>

\* the SOURCE argument names a symlink and the destination was a regular file
SymlinkOverRegular ==
    /\ exists(src, opt.input)
    /\ of_path(src, opt.input) = "Symlink"
    /\ exists(dst0, <<"dst">>)
    /\ of_path(dst0, <<"dst">>) = "Regular"

\* C21: when SOURCE is a symlink and the destination an existing regular file, after
\* a successful run the destination is a symlink with the target of SOURCE, whether
\* or not that target exists: the link is copied, not the file it points to.
C21_LinkItselfCopied ==
    (pc = "done" /\ SymlinkOverRegular) =>
        /\ exists(dst, <<"dst">>)
        /\ dst[<<"dst">>] = SymlinkNode(src[opt.input].data)

\* the obligations the last round started with (after the rewriting), the index in
\* fixlog of its first fix, and the positions of those whose fix returned true
RoundStart == droplog[Len(droplog)].after

FirstFix(r) == CHOOSE i \in RoundFixes(r) : \A j \in RoundFixes(r) : i <= j

KeptIn(r) == {k \in 1..Len(RoundStart) : fixlog[FirstFix(r) + k - 1].changed}

Sources(obs) == {obs[k].source : k \in 1..Len(obs)}

\* C22: after each round the obligations are exactly those of the round's starting
\* set whose fix_path returned true, in order; none is added after the initial
\* pass; an obligation that was dropped is never fixed again; from round to round
\* the set only shrinks.
C22_RetainExactlyTheFixed ==
    /\ (pc = "loop" /\ round >= 1) =>
         /\ Cardinality(RoundFixes(round)) = Len(RoundStart)
         /\ \A k \in 1..Len(RoundStart) :
              fixlog[FirstFix(round) + k - 1].source = RoundStart[k].source
         /\ Len(obligations) = Cardinality(KeptIn(round))
         /\ \A j \in 1..Len(obligations) :
              obligations[j] = RoundStart[CHOOSE k \in KeptIn(round) :
                                    Cardinality({m \in KeptIn(round) : m <= k}) = j]
    /\ pc \notin {"canonicalize", "permission_check", "enumerate", "first_copy"} =>
         \A j \in 1..Len(obligations) :
            \E k \in 1..Len(seeded) :
               /\ seeded[k].source = obligations[j].source
               /\ seeded[k].checksum = obligations[j].checksum
               /\ seeded[k].size = obligations[j].size
    /\ \A i \in 1..Len(fixlog) :
         fixlog[i].round >= 2 =>
            \E h \in RoundFixes(fixlog[i].round - 1) :
               fixlog[h].source = fixlog[i].source /\ fixlog[h].ok /\ fixlog[h].changed
    /\ \A k \in 1..(Len(droplog) - 1) :
         /\ Sources(droplog[k + 1].before) \subseteq Sources(droplog[k].after)
         /\ Len(droplog[k + 1].before) <= Len(droplog[k].before)
         /\ Len(droplog[k].after) = Len(droplog[k].before)

\* C22 witness: a run ended in which a round that fixed several obligations kept
\* one and dropped the others, and the next round fixed only the one kept
C22_Witness ==
    /\ pc = "done"
    /\ \E k \in 1..(Len(droplog) - 1) :
         /\ Len(droplog[k].before) >= 2
         /\ Len(droplog[k + 1].before) = 1
         /\ Cardinality(RoundFixes(droplog[k + 1].round)) = 1

\* the kind fix_path met at the destination in the call recorded in `unit`
MetKind == IF exists(unit.before, <<"dst">>) THEN of_path(unit.before, <<"dst">>) ELSE "absent"

OrigKind == of_path(unit.orig, SourceRoot)

\* the destination raised one of the three sentinels: EISDIR or ELOOP on opening it
\* for a file or device, not a directory for a directory, EINVAL from read_link for
\* a symlink
Sentinel ==
    \/ OrigKind \in {"Regular", "Device"} /\ MetKind \in {"Directory", "Symlink"}
    \/ OrigKind = "Directory" /\ MetKind \notin {"absent", "Directory"}
    \/ OrigKind = "Symlink" /\ MetKind \notin {"absent", "Symlink"}

\* the destination raised another error: it is not there, or it cannot be opened
OtherDestError ==
    /\ OrigKind # "Other"
    /\ \/ MetKind = "absent"
       \/ OrigKind \in {"Regular", "Device"} /\ MetKind = "Other"

\* the calls of the recorded fix that remove the destination itself
Deletions ==
    {j \in 1..Len(unit.res.io) :
        /\ unit.res.io[j].op \in {"remove_file", "remove_dir_all"}
        /\ unit.res.io[j].path = <<"dst">>}

SlotFits ==
    unit.slot \in {None, SourceChecksum(unit.orig[SourceRoot], ChildNames(unit.orig, SourceRoot))}

\* C23: in the fix kernel a destination error leads to delete-and-recopy only for
\* the three sentinels; any other destination error, a missing destination
\* included, is returned as an error and the destination is neither deleted nor
\* copied again.
C23_OnlySentinelsRecopy ==
    unit.fn = "fix_path" =>
        /\ (Sentinel /\ (OrigKind = "Symlink" => SlotFits)) =>
              /\ Deletions # {}
              /\ exists(unit.res.fs, <<"dst">>)
              /\ of_path(unit.res.fs, <<"dst">>) # MetKind
              /\ unit.res.fs[<<"dst">>].data = unit.orig[SourceRoot].data
              /\ unit.res.ok = SlotFits
              /\ unit.res.ok => unit.res.changed
        /\ OtherDestError =>
              /\ ~unit.res.ok
              /\ unit.res.err \in {"ENOENT", "ENXIO", "wrong checksum"}
              /\ unit.res.err = "wrong checksum" => (OrigKind = "Symlink" /\ ~SlotFits)
              /\ unit.res.fs = unit.before
              /\ WriteCalls(unit.res) = {}
        /\ (~unit.res.ok /\ unit.res.err \in {"ENOENT", "ENXIO"}) => OtherDestError

\* C23 witness: a file was fixed on a destination that is a directory with a
\* member: the directory was removed and the file copied
C23_Witness ==
    /\ unit.fn = "fix_path"
    /\ OrigKind = "Regular"
    /\ MetKind = "Directory"
    /\ exists(unit.before, <<"dst", "x">>)
    /\ Deletions # {}
    /\ unit.res.ok
    /\ ~exists(unit.res.fs, <<"dst", "x">>)

\* the destination of source path s as section 4.C defines it: the destination root
\* followed by the components of s after the source root
DestOf(s) == TargetRoot \o SubSeq(s, Len(source_) + 1, Len(s))

\* the fix of the initial pass on source path s, if first_copy made one
SeedFixes(s) == {i \in FixesOf(s) : fixlog[i].round = 0 /\ fixlog[i].ok}

\* C24: the initial pass emits exactly one obligation per entry of the source walk,
\* in order, with destination = destination root + (path - source root).  Where
\* that destination existed (a symlink counts as it is) fix_path was called with an
\* empty slot and the slot it filled is recorded; where it did not, copy_path was
\* called and the checksum it returned, the source's, is recorded.  The obligation
\* is emitted also when the fix changed nothing.
C24_InitialPass ==
    /\ Len(seeded) <= Len(orig_paths)
    /\ pc \in {"loop", "fix", "done"} => Len(seeded) = Len(orig_paths)
    /\ pc = "first_copy" => Len(seeded) = idx - 1 /\ obligations = [k \in 1..Len(seeded) |->
                               Obligation(seeded[k].source, seeded[k].dest,
                                          seeded[k].checksum, seeded[k].size)]
    /\ \A k \in 1..Len(seeded) :
         LET o == seeded[k]
             t == SubSeq(o.dest, Len(MountPoint) + 1, Len(o.dest))
         IN  /\ o.source = orig_paths[k].path
             /\ o.size = orig_paths[k].size
             /\ o.dest = DestOf(o.source)
             /\ o.checksum # None
             /\ IF t \in DOMAIN o.fsBefore
                THEN /\ o.call = "fix_path"
                     /\ Cardinality(SeedFixes(o.source)) = 1
                     /\ \A i \in SeedFixes(o.source) :
                          /\ fixlog[i].prefilled = None
                          /\ fixlog[i].slot = o.checksum
                          /\ fixlog[i].fsBefore = o.fsBefore
                ELSE /\ o.call = "copy_path"
                     /\ SeedFixes(o.source) = {}
                     /\ o.checksum = SourceChecksum(o.reference, o.want)

\* C24 witness: the initial pass walked three entries, fixed one whose destination
\* was there and needed no change, and copied one whose destination was missing
C24_Witness ==
    /\ pc = "loop"
    /\ Len(seeded) >= 3
    /\ \E k \in 1..Len(seeded) : seeded[k].call = "copy_path"
    /\ \E k \in 1..Len(seeded) :
         /\ seeded[k].call = "fix_path"
         /\ seeded[k].reference.kind # "Directory"
         /\ \A i \in SeedFixes(seeded[k].source) : ~fixlog[i].changed

\* the recorded call wrote the destination link
LinkWritten == \E j \in 1..Len(unit.res.io) : unit.res.io[j].op = "symlink"

\* C25: the checksum recorded for an obligation is that of the source content as
\* read once in the initial pass: the bytes hashed into it are the bytes, from the
\* same read, that were written to the destination or compared with it.  For a
\* symlink: the recorded checksum is the checksum of the target the kernel wrote,
\* and where it wrote nothing, of the target it compared.
C25_ChecksumOfTheBytesTransferred ==
    (unit.fn \in {"copy_path", "fix_symlink"} /\ unit.res.ok) =>
        /\ LinkWritten => unit.res.slot = Crc(unit.res.fs[<<"dst">>].data)
        /\ ~LinkWritten => unit.res.slot = Crc(unit.before[<<"dst">>].data)

\* the xor fold of the checksums of a set of names, from the checksum of the empty
\* input
XorFold(names) == Xor(Crc(<<>>), XorSet(names))

\* C26: for any source directory and any two enumeration orders of it, the checksum
\* of copy_directory (directory_checksum) and the one fix_directory fills in are the
\* same value: the xor fold of the checksums of the child names, starting from the
\* checksum of the empty input.
C26_DirectoryChecksumOrderFree ==
    unit.fn = "directory_checksum" =>
        /\ unit.copied.ok /\ unit.fixed.ok
        /\ unit.copied.slot = XorFold(unit.names)
        /\ unit.fixed.slot = XorFold(unit.names)
        /\ unit.copied.slot = unit.fixed.slot

\* C26 witness: a directory of three names was checksummed by the copy in one
\* order and by the fix in another, next to a destination that lists other names
C26_Witness ==
    /\ unit.fn = "directory_checksum"
    /\ Cardinality(unit.names) = 3
    /\ unit.order # unit.it_orig
    /\ unit.have # unit.names
    /\ unit.copied.slot = unit.fixed.slot
    /\ unit.copied.slot # Crc(<<>>)

\* the positions of operation op in the recorded sequence of steps
At(op) == {j \in 1..Len(unit.res.ops) : unit.res.ops[j] = op}

Before(j, op) == Cardinality({i \in At(op) : i < j})

\* C27: usbreset's drop_cache runs its steps in order and stops at the first
\* failure: the reset ioctl is issued only after every mounted block of the drive
\* group was unmounted and every drive ejected; after the reset it looks for the
\* recorded identity at most 60 times, one second apart, fails at once when
\* several blocks match and with a timeout when none appeared, and remounts or
\* validates only after a unique match.  permission_check only opens the usb
\* device file and never issues the reset.
C27_UsbResetInOrder ==
    /\ unit.fn = "usbreset_drop_cache" =>
         LET env == unit.env
             res == unit.res
             last == res.ops[Len(res.ops)]
         IN  /\ Cardinality(At("ioctl")) <= 1
             /\ \A j \in At("ioctl") :
                  /\ Before(j, "unmount") = env.mounted
                  /\ Before(j, "eject") = env.drives
                  /\ Before(j, "open") = 1
             /\ \A u \in At("unmount"), e \in At("eject") : u < e
             /\ \A j \in At("lookup") :
                  /\ Before(j, "ioctl") = 1
                  /\ j >= 3 /\ res.ops[j - 1] = "update" /\ res.ops[j - 2] = "sleep"
             /\ Cardinality(At("lookup")) <= PollLimit
             /\ Cardinality(At("sleep")) = Cardinality(At("lookup"))
             /\ \A j \in At("mount") \cup At("validate") :
                  /\ env.appears.at # 0 /\ ~env.appears.several
                  /\ Before(j, "lookup") = env.appears.at
                  /\ j > Len(res.ops) - 3
             /\ (At("ioctl") # {} /\ env.resetFail = "none" /\ env.appears.at = 0) =>
                  /\ ~res.ok /\ res.err = "Timeout reached"
                  /\ Cardinality(At("lookup")) = PollLimit
             /\ (At("ioctl") # {} /\ env.resetFail = "none" /\ env.appears.several) =>
                  /\ ~res.ok /\ res.err = "Several"
                  /\ Cardinality(At("lookup")) = env.appears.at
                  /\ last = "lookup"
             /\ env.unmountFail # 0 =>
                  ~res.ok /\ res.ops = [i \in 1..env.unmountFail |-> "unmount"]
             /\ env.ejectFail # 0 =>
                  ~res.ok /\ last = "eject" /\ Cardinality(At("eject")) = env.ejectFail
             /\ env.resetFail = "open" => ~res.ok /\ last = "open"
             /\ env.resetFail = "ioctl" => ~res.ok /\ last = "ioctl"
             /\ env.mountFail => ~res.ok /\ last = "mount"
             /\ res.ok => last = IF env.id = "Fs" THEN "stat_parent" ELSE "validate"
    /\ unit.fn = "usbreset_permission_check" =>
         /\ At("ioctl") = {}
         /\ unit.res.ok => Cardinality(At("open")) = 1

\* C27 witness: two file systems were unmounted, two drives ejected, the hub reset,
\* and the file system with the recorded uuid came back at the last lookup and was
\* mounted again
C27_Witness ==
    /\ unit.fn = "usbreset_drop_cache"
    /\ unit.res.ok
    /\ unit.env.id = "Fs"
    /\ unit.env.mounted = 2 /\ unit.env.drives = 2
    /\ Cardinality(At("lookup")) = PollLimit
    /\ At("mount") # {}

\* ---- C28 ----
\* the operations of the recorded call of the page cache policy
VmOps == unit.res.ops

\* the ancestor whose file system is synced: the first one that is no symlink
SyncedAt == CHOOSE i \in 1..Len(unit.kinds) :
                /\ unit.kinds[i] # "Symlink"
                /\ \A j \in 1..(i - 1) : unit.kinds[j] = "Symlink"

\* the positions of VmOps that hold a sync, and those that hold the write of "3"
Syncs == {i \in 1..Len(VmOps) : VmOps[i].op \in {"syncfs", "fsync"}}

Writes3 == {i \in 1..Len(VmOps) : VmOps[i].op = "write 3"}

\* C28: the page cache policy's drop_cache syncs exactly once, on the path or, for
\* a symlink, on what is above it; a path of kind Other is an error without a sync;
\* "3" is written to /proc/sys/vm/drop_caches only after a sync that succeeded, and
\* is written by every call that returns Ok unless CCCP_NO_ROOT is set; with
\* CCCP_NO_ROOT set /proc is never touched and permission_check passes whatever the
\* uid is; no call returns a Replacement
C28_SyncThenWrite ==
    unit.fn = "vm_drop_cache" =>
        /\ \A i \in Syncs : VmOps[i].at = SyncedAt
        /\ Cardinality(Syncs) <= 1
        /\ unit.kinds[1] = "Symlink" => SyncedAt > 1
        /\ unit.kinds[SyncedAt] = "Other" => ~unit.res.ok /\ Syncs = {}
        /\ \A w \in Writes3 :
              \E i \in Syncs : i < w /\ unit.fail # "sync"
        /\ \A i \in 1..Len(VmOps) : VmOps[i].at = 0 => Syncs # {} /\ unit.fail # "sync"
        /\ unit.res.ok => Syncs # {}
        /\ unit.res.ok /\ ~unit.noRoot => Writes3 # {}
        /\ unit.noRoot => \A i \in 1..Len(VmOps) : VmOps[i].at # 0
        /\ unit.noRoot => unit.check.ok
        /\ unit.check.ok <=> (unit.root \/ unit.noRoot)
        /\ unit.res.replacement = NoReplacement

\* C28 witness: the path is a symlink below a directory, the parent's file system
\* was synced and "3" was written after it
C28_Witness ==
    /\ unit.fn = "vm_drop_cache"
    /\ unit.kinds[1] = "Symlink"
    /\ unit.res.ok
    /\ \E i \in Syncs : \E w \in Writes3 : i < w /\ VmOps[i] = VmOp("syncfs", 2)

\* C28 witness of the failing half: the sync failed and /proc was left alone
C28_SyncFailed ==
    /\ unit.fn = "vm_drop_cache"
    /\ ~unit.res.ok
    /\ ~unit.noRoot
    /\ Syncs # {}
    /\ Writes3 = {}

\* ---- C29 ----
\* the recorded call is DirectIOCacheManager::permission_check
ProbeCall == unit.fn = "directio_permission_check"

\* the calls of the recorded permission_check that make a file or a directory
ProbeMade == {i \in 1..Len(unit.res.io) : unit.res.io[i].op \in {"create", "create_dir"}}

\* the recorded permission_check got as far as opening with O_DIRECT
ProbeOpened ==
    \E i \in 1..Len(unit.res.io) :
        unit.res.io[i].via = "policy" /\ unit.res.io[i].op \in {"create", "open"}

C29_MissingProbed ==
    /\ ProbeCall
    /\ ~exists(unit.before, unit.path)
    /\ unit.res.ok
    /\ ProbeMade # {}
    /\ ~exists(unit.res.fs, unit.path)

\* ---- C30 ----
\* the recorded call is the block loop of fix_file
LoopCall == unit.fn = "fix_file_loop"

\* the iterations of the recorded loop, and its operations on the target
Starts == unit.res.starts

FdOps == unit.res.ops

\* the loop without cursors, run on the same source and target
Uncursored == FixLoop(unit.S, unit.D, 0, HasherDefault, FALSE, unit.isDev, <<>>)

\* C30: at the start of every iteration of fix_file's block loop both descriptors
\* stand at `offset`, and the target's first `offset` bytes are the source's; every
\* read and write of the target starts where the operation before it left the
\* cursor, a write starts at the `offset` of its iteration, nothing before that
\* offset is touched, and the offsets never go back; so it is after a rewrite, a
\* short read and an append.  Without short reads of the source the result is that
\* of the loop written without cursors
C30_BothCursorsAtOffset ==
    LoopCall =>
        /\ \A k \in 1..Len(Starts) :
              /\ Starts[k].orig = Starts[k].offset
              /\ Starts[k].target = Starts[k].offset
              /\ Len(Starts[k].dest) >= Starts[k].offset
              /\ SubSeq(Starts[k].dest, 1, Starts[k].offset)
                    = SubSeq(unit.S, 1, Starts[k].offset)
        /\ \A k \in 1..Len(FdOps) :
              /\ FdOps[k].at >= FdOps[k].offset
              /\ EndOf(FdOps[k]) <= FdOps[k].offset + BlockSize
              /\ FdOps[k].op \in {"write", "seek", "set_len"} => FdOps[k].at = FdOps[k].offset
              /\ k > 1 => FdOps[k - 1].offset <= FdOps[k].offset
              /\ (k > 1 /\ FdOps[k].op \in {"read", "write"}) =>
                    FdOps[k].at = EndOf(FdOps[k - 1])
              /\ (k = 1 /\ FdOps[k].op \in {"read", "write"}) => FdOps[k].at = 0
        /\ ~unit.short.orig =>
              /\ unit.res.ok = Uncursored.ok
              /\ unit.res.data = Uncursored.data
              /\ unit.res.changed = Uncursored.changed

\* C30 witness: a first block that was rewritten after a short read of the target,
\* then a block that was appended, then the iteration that meets the end of the source
C30_Witness ==
    /\ LoopCall
    /\ unit.short.target
    /\ Len(Starts) >= 3
    /\ \E k \in 3..Len(FdOps) :
          FdOps[k].op = "write" /\ FdOps[k].offset = 0 /\ FdOps[k - 1].op = "seek"
          /\ FdOps[k - 2].op = "read" /\ FdOps[k - 2].at >= 1
    /\ \E k \in 1..(Len(FdOps) - 2) :
          FdOps[k].op = "read" /\ FdOps[k].len = 0 /\ FdOps[k].offset > 0
          /\ FdOps[k + 2].op = "write"
    /\ unit.res.ok
    /\ unit.res.data = unit.S

\* ---- C31 ----
\* the place of source path p in the walk of first_copy
WalkIndex(p) == CHOOSE i \in 1..Len(orig_paths) : orig_paths[i].path = p

\* the key in the destination file system of the destination first_copy gave an
\* obligation (first_copy runs while the storage is mounted at MountPoint)
SeedKey(dest) == SubSeq(dest, Len(MountPoint) + 1, Len(dest))

\* q is strictly beneath p
Beneath(p, q) == IsPrefix(p, q) /\ Len(q) > Len(p)

\* C31: the walk of first_copy is a pre-order of the source tree: it starts with
\* the source, lists every path beneath it once, nothing beneath a symlink, a
\* directory before all that is beneath it and that in one block; a source that is
\* no directory gives one entry.  The obligations, and the fix_path calls of every
\* round, keep the order of the walk, so a directory is fixed before any entry
\* beneath it; and in the initial pass the destination of an entry's parent is a
\* directory when the entry is copied or fixed
C31_PreOrder ==
    /\ orig_paths # <<>> =>
         /\ orig_paths[1].path = source_
         /\ {orig_paths[i].path : i \in 1..Len(orig_paths)}
               = {p \in DOMAIN src : IsPrefix(source_, p)}
         /\ \A i, j \in 1..Len(orig_paths) :
               orig_paths[i].path = orig_paths[j].path => i = j
         /\ src[source_].kind # "Directory" => Len(orig_paths) = 1
         /\ \A i, j \in 1..Len(orig_paths) :
               Beneath(orig_paths[i].path, orig_paths[j].path) =>
                  /\ src[orig_paths[i].path].kind = "Directory"
                  /\ i < j
                  /\ \A m \in i..j : IsPrefix(orig_paths[i].path, orig_paths[m].path)
    /\ \A i, j \in 1..Len(obligations) :
         i < j => WalkIndex(obligations[i].source) < WalkIndex(obligations[j].source)
    /\ \A i, j \in 1..Len(seeded) :
         i < j => WalkIndex(seeded[i].source) < WalkIndex(seeded[j].source)
    /\ \A a, b \in 1..Len(fixlog) :
         (a < b /\ fixlog[a].round = fixlog[b].round) =>
            /\ WalkIndex(fixlog[a].source) < WalkIndex(fixlog[b].source)
            /\ ~Beneath(fixlog[b].source, fixlog[a].source)
    /\ \A k \in 1..Len(seeded) :
         seeded[k].source # source_ =>
            /\ \E j \in 1..(k - 1) :
                  /\ seeded[j].source = Parent(seeded[k].source)
                  /\ seeded[j].dest = Parent(seeded[k].dest)
            /\ exists(seeded[k].fsBefore, SeedKey(Parent(seeded[k].dest)))
            /\ of_path(seeded[k].fsBefore, SeedKey(Parent(seeded[k].dest))) = "Directory"

\* C31 witness: the source is a directory with a directory in it; at the
\* destination that inner directory was no directory before the run; the entry
\* beneath it was seeded after it, and a round fixed the directory and then the entry
C31_Witness ==
    /\ pc = "done"
    /\ \E k \in 1..Len(seeded) :
          /\ Len(seeded[k].source) = Len(source_) + 2
          /\ exists(dst0, SeedKey(Parent(seeded[k].dest)))
          /\ of_path(dst0, SeedKey(Parent(seeded[k].dest))) # "Directory"
          /\ \E a, b \in 1..Len(fixlog) :
                /\ a < b
                /\ fixlog[a].round = 1 /\ fixlog[b].round = 1
                /\ fixlog[a].source = Parent(seeded[k].source)
                /\ fixlog[b].source = seeded[k].source

\* ---- C32 ----
\* the recorded call is fix_directory on an existing directory
DirCall == unit.fn = "fix_directory"

\* the members of the destination directory the recorded fix_directory removed
Removed ==
    {unit.res.io[i].path[Len(unit.res.io[i].path)] :
        i \in {j \in 1..Len(unit.res.io) :
                 unit.res.io[j].op \in {"remove_file", "remove_dir_all"}}}

\* C32: in whichever order the source directory and the destination directory are
\* listed, the lockstep walk of fix_directory ends with target_names minus
\* orig_names being the destination's names that the source lacks; these and no
\* others are removed, and the call returns true exactly when there is one
C32_ExtraWhateverTheOrder ==
    DirCall =>
        /\ ExtraNames(unit.walk) = unit.have \ unit.want
        /\ unit.walk.orig_names \subseteq unit.want
        /\ unit.walk.target_names \subseteq unit.have
        /\ unit.res.ok
        /\ Removed = unit.have \ unit.want
        /\ ChildNames(unit.res.fs, <<"dst">>) = unit.have \cap unit.want
        /\ unit.res.changed <=> (unit.have \ unit.want # {})

\* C32 witness: both directories hold two common names, listed in opposite orders
\* with the destination's extra name between them; only the extra name is removed
C32_Witness ==
    /\ DirCall
    /\ unit.it_orig = <<"x", "y">>
    /\ unit.it_target = <<"y", "z", "x">>
    /\ unit.walk.orig_names = {"x", "y"}
    /\ unit.walk.target_names = {"x", "y", "z"}
    /\ Removed = {"z"}
    /\ unit.res.changed

\* ---- C33 ----
\* the source holds nothing but files, devices, directories and symlinks
NoOther(fs) == \A p \in DOMAIN fs : fs[p].kind # "Other"

\* the storage returned what was written, the source stayed as it was, and no
\* permission_check and no drop_cache returned an error
Quiet ==
    /\ Undisturbed
    /\ NoOther(src)
    /\ \A k \in 1..Len(checks) : checks[k].ok
    /\ \A k \in 1..Len(droplog) : droplog[k].ok

\* the fix_path calls of round r
FixesIn(r) == {i \in 1..Len(fixlog) : fixlog[i].round = r}

\* the destination is a block device with less room than the source file needs
DeviceTooSmall ==
    /\ source_ # <<>>
    /\ exists(dst0, <<"dst">>)
    /\ of_path(dst0, <<"dst">>) = "Device"
    /\ src[source_].kind \in {"Regular", "Device"}
    /\ Len(dst0[<<"dst">>].data) < Len(src[source_].data)

\* in a quiet run there is one verification round, every fix of it returns false,
\* and it leaves no obligation
OneCleanRound ==
    /\ round <= 1
    /\ \A i \in FixesIn(1) : fixlog[i].ok /\ ~fixlog[i].changed
    /\ (pc = "loop" /\ round = 1) => obligations = <<>>
    /\ (pc = "fix" /\ round = 1) => Len(obligations) = Len(orig_paths)
    /\ pc = "done" =>
          /\ round = 1
          /\ Cardinality(FixesIn(1)) = Len(orig_paths)

C33_DeviceFull ==
    /\ Quiet
    /\ pc = "failed"
    /\ DeviceTooSmall
    /\ error = "ENOSPC"

\* ---- C34 ----
\* the source of this record is copied by copy_file
OfFile(e) == e.reference.kind \in {"Regular", "Device"}

\* the positions in the calls of fix record e where copy_file opens its target:
\* the open that follows the removal of the recopy arm
RecopyOpens(e) ==
    {j \in 2..Len(e.io) :
        /\ e.io[j] = Io("open", e.key, "policy")
        /\ e.io[j - 1] \in {Io("remove_file", e.key, "std"),
                            Io("remove_dir_all", e.key, "std")}}

\* the positions in the calls of fix record e where a file is created
Creations(e) == {j \in 1..Len(e.io) : e.io[j].op = "create"}

\* C34: copy_file runs only where nothing exists.  In the initial pass it is
\* reached through copy_path, on a destination path the destination file system
\* did not hold; in fix_file it is reached only from the arm that has just removed
\* the directory or symlink found there, and never on an existing file or device.
\* Each time it creates the file, and the file then holds the source's bytes and
\* nothing else
C34_CopyFileOnlyOnNothing ==
    /\ \A k \in 1..Len(seeded) :
         (seeded[k].call = "copy_path" /\ OfFile(seeded[k])) =>
            /\ ~exists(seeded[k].fsBefore, SeedKey(seeded[k].dest))
            /\ seeded[k].fsAfter[SeedKey(seeded[k].dest)]
                  = RegularNode(seeded[k].reference.data)
    /\ \A i \in 1..Len(fixlog) :
         LET e == fixlog[i] IN
         (OfFile(e) /\ exists(e.fsBefore, e.key)) =>
            /\ e.fsBefore[e.key].kind \in {"Regular", "Device"} =>
                  Creations(e) = {} /\ RecopyOpens(e) = {}
            /\ e.fsBefore[e.key].kind \in {"Directory", "Symlink"} =>
                  /\ Cardinality(RecopyOpens(e)) = 1
                  /\ \A j \in RecopyOpens(e) : Creations(e) = {j + 1}
                  /\ e.fsAfter[e.key] = RegularNode(e.reference.data)
                  /\ \A q \in DOMAIN e.fsAfter : ~Beneath(e.key, q)
            /\ \A j \in Creations(e) : (j - 1) \in RecopyOpens(e)

\* C34 witness: in one run a file was copied to a path that held nothing, and a
\* file was copied again over a directory that held something, after its removal
C34_Witness ==
    /\ pc = "done"
    /\ \E k \in 1..Len(seeded) : seeded[k].call = "copy_path" /\ OfFile(seeded[k])
                                 /\ Len(seeded[k].reference.data) > 0
    /\ \E i \in 1..Len(fixlog) :
          /\ OfFile(fixlog[i])
          /\ exists(fixlog[i].fsBefore, fixlog[i].key)
          /\ fixlog[i].fsBefore[fixlog[i].key].kind = "Directory"
          /\ ChildNames(fixlog[i].fsBefore, fixlog[i].key) # {}
          /\ RecopyOpens(fixlog[i]) # {}
          /\ fixlog[i].ok

\* ---- C35 ----
\* the recorded call is fix_path on a destination that is a symlink
LinkCall == unit.fn = "fix_over_link"

\* the calls of the recorded fix that look into a file or a directory
Looks == {i \in 1..Len(unit.res.io) : unit.res.io[i].op \in {"read_dir", "read_link"}}

\* the calls of the recorded fix that remove something
Unlinks ==
    {i \in 1..Len(unit.res.io) : unit.res.io[i].op \in {"remove_file", "remove_dir_all"}}

\* C35: when the destination of a regular file or of a directory is a symlink,
\* fix_path removes the link, by remove_file and never by remove_dir_all, and
\* makes a regular file with the source's bytes, or an empty directory, at its
\* path; it lists and reads nothing; whatever the link points to, and every other
\* node of the destination, is afterwards what it was; the call returns true, or
\* fails on a checksum that was there and is not the source's
C35_LinkReplacedReferentUntouched ==
    LinkCall =>
        /\ \A q \in DOMAIN unit.before :
              q # unit.link => (q \in DOMAIN unit.res.fs /\ unit.res.fs[q] = unit.before[q])
        /\ DOMAIN unit.res.fs = DOMAIN unit.before
        /\ unit.res.fs[unit.link] =
              (IF unit.orig[unit.source].kind = "Directory" THEN DirectoryNode
               ELSE RegularNode(unit.orig[unit.source].data))
        /\ Looks = {}
        /\ Cardinality(Unlinks) = 1
        /\ \A i \in Unlinks : unit.res.io[i] = Io("remove_file", unit.link, "std")
        /\ \A i \in 1..Len(unit.res.io) : unit.res.io[i].path = unit.link
        /\ unit.res.changed
        /\ unit.res.ok \/ unit.res.err = "wrong checksum"
        /\ unit.slot = None => unit.res.ok

\* C35 witness: a regular file fixed over a link to a directory that holds a file;
\* the link is gone, the file is there, the directory is as it was
C35_Witness ==
    /\ LinkCall
    /\ unit.orig[unit.source] = RegularNode(<<0, 1>>)
    /\ PointsSomewhere(unit.before, unit.link)
    /\ of_path(unit.before, Referent(unit.before, unit.link)) = "Directory"
    /\ unit.res.ok
    /\ unit.res.fs[unit.link] = RegularNode(<<0, 1>>)
    /\ ChildNames(unit.res.fs, <<"dst", "y">>) = {"x"}

\* C35 witness for a directory: a directory fixed over a link to a regular file
C35_DirectoryOverLink ==
    /\ LinkCall
    /\ unit.orig[unit.source].kind = "Directory"
    /\ PointsSomewhere(unit.before, unit.link)
    /\ unit.res.ok
    /\ unit.res.fs[unit.link] = DirectoryNode
    /\ unit.res.fs[<<"dst", "y">>] = RegularNode(<<1, 0, 1>>)

\* ---- C36 ----
\* the recorded call is fix_path of a regular file onto a file or a device, and it
\* failed on the checksum
BadChecksum ==
    /\ unit.fn = "fix_path"
    /\ unit.orig[SourceRoot].kind = "Regular"
    /\ <<"dst">> \in DOMAIN unit.before
    /\ unit.before[<<"dst">>].kind \in {"Regular", "Device"}
    /\ unit.res.err = "wrong checksum"

\* the bytes the destination holds after the recorded call, as far as the source goes
HeldAfter ==
    LET d == unit.res.fs[<<"dst">>].data
    IN  IF unit.res.fs[<<"dst">>].kind = "Device"
        THEN SubSeq(d, 1, Len(unit.orig[SourceRoot].data))
        ELSE d

\* C36: when fix_file fails on the checksum, its block loop has run to the end:
\* the destination holds the bytes of the source as that pass read them, a file
\* cut to the source's length and a device up to it, the call wrote if and only
\* if the destination differed, and the checksum that was there is kept
C36_BadChecksumAfterTheLoop ==
    BadChecksum =>
        /\ <<"dst">> \in DOMAIN unit.res.fs
        /\ unit.res.fs[<<"dst">>].kind = unit.before[<<"dst">>].kind
        /\ HeldAfter = unit.orig[SourceRoot].data
        /\ unit.res.changed <=> unit.res.fs # unit.before
        /\ unit.res.changed <=>
              \E k \in 1..Len(unit.res.io) : unit.res.io[k].op \in WriteOps
        /\ ~unit.res.ok /\ unit.slot # None /\ unit.res.slot = unit.slot

\* C36 witness: a fix that failed on the checksum after it rewrote a file and cut
\* it to the length of its source
C36_Witness ==
    /\ BadChecksum
    /\ unit.before[<<"dst">>].kind = "Regular"
    /\ unit.orig[SourceRoot].data = <<0, 1>>
    /\ Len(unit.before[<<"dst">>].data) = 3
    /\ SubSeq(unit.before[<<"dst">>].data, 1, 2) # <<0, 1>>
    /\ unit.res.changed
    /\ unit.res.fs[<<"dst">>].data = <<0, 1>>
    /\ \E k \in 1..Len(unit.res.io) : unit.res.io[k].op = "set_len"
    /\ \E k \in 1..Len(unit.res.io) : unit.res.io[k].op = "write"

====
